---- MODULE Spec2Model ----
(***************************************************************************)
(* A model of poker-eden: the Texas Hold'em engine of poker_eden_core      *)
(* (GameState in state.rs, the hand logic in logic.rs) and the room        *)
(* handlers of poker_eden_server (main.rs) that drive it.                  *)
(*                                                                         *)
(* Vectors indexed like hand_player_order (bets, player_cards,             *)
(* player_has_acted) are functions over 0..n-1, so that indices read as in *)
(* the source.  Engine methods are operators from a GameState record to a  *)
(* record [s, msgs, panic]: the state they leave, the events they return   *)
(* and whether the call panicked (the state is then the one reached at the *)
(* panic).  The outcome of the shuffle is drawn where it is first read:    *)
(* the hand ranks at showdown.                                             *)
(***************************************************************************)
EXTENDS Integers, Sequences, FiniteSets, TLC

\* ---------------------------------------------------------------- bounds
NumPlayers == 3
MaxStack == 4
MaxRank == 2
MaxHands == 1
MaxIdleActions == 1
MaxDelta == 4
MaxDisconnects == 1
PotPlayers == 3
MaxBet == 3
MaxJoins == 1
MaxStreetBet == 2
MaxMutations == 2
MaxRefusals == 1
MaxSeat == 2
DeepStack == 7
MaxHandled == 34

\* --------------------------------------------------- program constants
small_blind == 1
big_blind == 2
MaxDeal == 10
MinDeal == 2
BoardSlots == 5

PlayerIds == 1..NumPlayers
\* The ids JoinRoom hands to the players who join later.
Joiners == (NumPlayers + 1)..(NumPlayers + MaxJoins)
ConnIds == PlayerIds \cup Joiners
NoPlayer == 0
NoCard == 0
NoRank == 0
NoSeat == -1
seats == 10
ChannelCapacity == 32

VARIABLES
    game_state,   \* Room.game_state
    host_id,      \* Room.host_id
    connections,  \* the keys of Room.players
    crashed,      \* connections whose handler task ended in a panic
    msgs,         \* the events the last room operation returned
    sent,         \* what the last handler enqueued, per connection
    hands,        \* StartHand messages processed so far
    start_total,  \* chips on the table when the running hand was dealt
    in_hand,      \* a hand was dealt and no later start_new_hand was called
    idle_actions, \* PerformAction messages handled outside a betting phase
    registry,     \* the room is in AppState.rooms
    tasks,        \* where each connection's task stands, and what it has
                  \* still to send
    queue,        \* each connection's mpsc channel, every event numbered
                  \* with the room mutation that produced it
    mutations     \* room mutations so far, in the order they took the lock

\* The part of the state that only the handlers taken step by step change.
session == <<registry, tasks, queue, mutations>>

vars == <<game_state, host_id, connections, crashed, msgs, sent,
          hands, start_total, in_hand, idle_actions,
          registry, tasks, queue, mutations>>

\* A connection's task: waiting for the next client message with or without
\* a room context, or inside a handler with sends still to make.
Task(at, pending) == [at |-> at, pending |-> pending]

\* Every task between two client messages, nothing enqueued yet.
SessionIdle ==
    /\ registry = TRUE
    /\ tasks = [c \in ConnIds |->
                   Task(IF c \in PlayerIds THEN "bound" ELSE "unbound", <<>>)]
    /\ queue = [c \in ConnIds |-> <<>>]
    /\ mutations = 0

\* ------------------------------------------------------- vector helpers
VLen(v) == Cardinality(DOMAIN v)

Vec(n, x) == [i \in 0..(n - 1) |-> x]

Min(a, b) == IF a < b THEN a ELSE b

RECURSIVE SumOver(_, _)
SumOver(f, S) ==
    IF S = {} THEN 0
    ELSE LET x == CHOOSE y \in S : TRUE IN f[x] + SumOver(f, S \ {x})

SeqToVec(q) == [i \in 0..(Len(q) - 1) |-> q[i + 1]]

BettingPhases == {"PreFlop", "Flop", "Turn", "River"}

Out(s, m, p) == [s |-> s, msgs |-> m, panic |-> p]

\* ------------------------------------------------------------- state.rs
Player(stack, state) == [stack |-> stack, state |-> state]

DefaultGameState ==
    [players |-> <<>>,
     seated_players |-> <<>>,
     seat_ids |-> <<>>,
     hand_player_order |-> <<>>,
     player_indices |-> <<>>,
     deck |-> <<>>,
     phase |-> "WaitingForPlayers",
     pot |-> 0,
     bets |-> <<>>,
     community_cards |-> Vec(BoardSlots, NoCard),
     player_cards |-> Vec(BoardSlots, <<NoCard, NoCard>>),
     player_has_acted |-> <<>>,
     cur_player_idx |-> 0,
     max_bet |-> 0,
     last_raise_amount |-> 0]

current_player_id(s) ==
    IF s.cur_player_idx \in DOMAIN s.hand_player_order
    THEN s.hand_player_order[s.cur_player_idx]
    ELSE NoPlayer

get_players_in_hand(s) ==
    {s.hand_player_order[i] : i \in
        {j \in DOMAIN s.hand_player_order :
            s.players[s.hand_player_order[j]].state \in {"Playing", "AllIn"}}}

\* A projection that hides the client's own cards too once the deck is
\* empty, as it is in a state that was projected before.
for_client_once(s, client_id) ==
    LET client_idx == IF client_id \in DOMAIN s.player_indices
                      THEN s.player_indices[client_id] ELSE -1
    IN [s EXCEPT
          !.deck = <<>>,
          !.player_cards =
              [i \in DOMAIN s.player_cards |->
                  IF i # client_idx \/ s.deck = <<>>
                  THEN <<NoCard, NoCard>> ELSE s.player_cards[i]]]

for_client(s, client_id) ==
    LET client_idx == IF client_id \in DOMAIN s.player_indices
                      THEN s.player_indices[client_id] ELSE -1
        in_hand_set == get_players_in_hand(s)
    IN [s EXCEPT
          !.deck = <<>>,
          !.player_cards =
              [i \in DOMAIN s.player_cards |->
                  IF s.phase = "Showdown"
                  THEN IF s.hand_player_order[i] \notin in_hand_set /\ i # client_idx
                       THEN <<NoCard, NoCard>> ELSE s.player_cards[i]
                  ELSE IF i # client_idx
                       THEN <<NoCard, NoCard>> ELSE s.player_cards[i]]]

\* ----------------------------------------------------------- message.rs
Action(kind, amount) == [kind |-> kind, amount |-> amount]

Fold == Action("Fold", 0)
Check == Action("Check", 0)
Call == Action("Call", 0)
BetOrRaise(delta) == Action("BetOrRaise", delta)

ActionType(kind, amount) == [kind |-> kind, amount |-> amount]

EvError(why) == [type |-> "Error", message |-> why]

EvHandStarted(order, dealer) ==
    [type |-> "HandStarted", hand_player_order |-> order, dealer_id |-> dealer]

EvPlayerActed(pid, action, total, stack, pot) ==
    [type |-> "PlayerActed", player_id |-> pid, action |-> action,
     total_bet_this_round |-> total, new_stack |-> stack, new_pot |-> pot]

EvNextToAct(pid, valid) ==
    [type |-> "NextToAct", player_id |-> pid, valid_actions |-> valid]

EvCommunityCardsDealt(phase, cards) ==
    [type |-> "CommunityCardsDealt", phase |-> phase, cards |-> cards]

EvBetReturned(pid, amount, stack) ==
    [type |-> "BetReturned", player_id |-> pid, amount |-> amount,
     new_stack |-> stack]

ShowdownResult(pid, rank, cards, winnings) ==
    [player_id |-> pid, hand_rank |-> rank, cards |-> cards,
     winnings |-> winnings]

\* results is a Vec in the source; its order after distribute_pots is the
\* iteration order of a HashMap, so the model keeps the set of its entries.
EvShowdown(results) == [type |-> "Showdown", results |-> results]

EvPlayerUpdated(pid, player) ==
    [type |-> "PlayerUpdated", player_id |-> pid, player |-> player]

EvPlayerJoined(pid, player) ==
    [type |-> "PlayerJoined", player_id |-> pid, player |-> player]

EvRoomJoined(your_id, view, host) ==
    [type |-> "RoomJoined", your_id |-> your_id, game_state |-> view,
     host_id |-> host]

EvPlayerHand(cards) == [type |-> "PlayerHand", hands |-> cards]

EvInfo(new_host) == [type |-> "Info", new_host |-> new_host]

\* -------------------------------------------------------------- card.rs
\* The cards of a deal are numbered 1..2k+5; which card is which is the
\* outcome of the shuffle and is drawn as hand ranks at showdown.
generate_random_hand(k_players) ==
    IF k_players < MinDeal \/ k_players > MaxDeal
    THEN [panic |-> TRUE, cards |-> <<>>]
    ELSE [panic |-> FALSE, cards |-> [i \in 1..(2 * k_players + 5) |-> i]]

\* ------------------------------------------------- logic.rs: hand start

SetState(s, pid, state) == [s EXCEPT !.players[pid].state = state]

\* One blind: min(blind, stack) moves from the stack to the pot and into
\* bets[idx]; a poster left with nothing is AllIn.
post_blind(s, idx, blind) ==
    LET pid == s.hand_player_order[idx]
        amount == Min(blind, s.players[pid].stack)
        left == s.players[pid].stack - amount
        s1 == [s EXCEPT !.players[pid].stack = left,
                        !.players[pid].state =
                            IF left = 0 THEN "AllIn" ELSE @,
                        !.pot = @ + amount,
                        !.bets[idx] = amount]
    IN Out(s1, <<EvPlayerActed(pid, BetOrRaise(amount), amount, left, s1.pot)>>,
           FALSE)

deal_hole_cards(s, cards) ==
    LET n == VLen(s.hand_player_order)
        top == Len(cards)
        dealt == {s.hand_player_order[i] : i \in DOMAIN s.hand_player_order}
    IN [s EXCEPT
          !.players = [p \in DOMAIN @ |->
                          IF p \in dealt THEN [@[p] EXCEPT !.state = "Playing"]
                          ELSE @[p]],
          !.player_cards = [i \in 0..(n - 1) |->
                               <<cards[top - 2 * i], cards[top - 2 * i - 1]>>],
          !.deck = SubSeq(cards, 1, top - 2 * n)]

start_new_hand(s) ==
    LET seated == {s.seated_players[i] : i \in DOMAIN s.seated_players}
        players1 == [p \in DOMAIN s.players |->
                        IF p \in seated /\ (s.players[p].state = "Offline"
                                            \/ s.players[p].stack = 0)
                        THEN [s.players[p] EXCEPT !.state = "SittingOut"]
                        ELSE s.players[p]]
        Eligible(id) == /\ id \in DOMAIN players1
                        /\ players1[id].state # "SittingOut"
                        /\ players1[id].stack > 0
        order == SeqToVec(SelectSeq(s.seated_players, Eligible))
        n == VLen(order)
        s1 == [s EXCEPT !.players = players1, !.hand_player_order = order]
    IN IF n < 2
       THEN Out([s1 EXCEPT !.phase = "WaitingForPlayers"], <<>>, FALSE)
       ELSE
       LET s2 == [s1 EXCEPT
                    !.player_indices =
                        [id \in {order[i] : i \in DOMAIN order} |->
                            CHOOSE i \in DOMAIN order : order[i] = id],
                    !.pot = 0,
                    !.community_cards = Vec(BoardSlots, NoCard),
                    !.max_bet = 0,
                    !.player_cards = Vec(n, <<NoCard, NoCard>>),
                    !.bets = Vec(n, 0),
                    !.player_has_acted = Vec(n, FALSE),
                    !.last_raise_amount = big_blind]
           total_cards_needed == n * 2 + 5
           g == generate_random_hand(total_cards_needed)
       IN IF g.panic THEN Out(s2, <<>>, TRUE)
          ELSE
          LET s3 == deal_hole_cards(s2, g.cards)
              sb_idx == IF n = 2 THEN 0 ELSE 1 % n
              bb_idx == IF n = 2 THEN 1 ELSE 2 % n
              first_to_act_idx == IF n = 2 THEN 0 ELSE (bb_idx + 1) % n
              blinds_posted(sb, bb) ==
                  LET s4 == [bb.s EXCEPT !.max_bet = big_blind,
                                         !.phase = "PreFlop",
                                         !.cur_player_idx = first_to_act_idx]
                  IN Out(s4,
                         <<EvHandStarted(order, order[0])>>
                         \o sb.msgs \o bb.msgs
                         \o <<EvNextToAct(order[first_to_act_idx],
                                <<ActionType("Call",
                                      s4.max_bet - s4.bets[first_to_act_idx]),
                                  ActionType("Raise", s4.last_raise_amount),
                                  ActionType("Fold", 0)>>)>>,
                         FALSE)
              big_blind_after(sb) ==
                  blinds_posted(sb, post_blind(sb.s, bb_idx, big_blind))
          IN big_blind_after(post_blind(s3, sb_idx, small_blind))

\* --------------------------------------------- logic.rs: showdown, pots
IsSome(cards) == cards[1] # NoCard /\ cards[2] # NoCard

NonFolded(s) ==
    {i \in DOMAIN s.hand_player_order :
        s.players[s.hand_player_order[i]].state # "Folded"}

\* No return at all: the pot goes to the distribution as it stands.
return_uncalled_bets_skipped(s) == Out(s, <<>>, FALSE)

\* An uncalled bet taken out of the pot and never credited.
return_uncalled_bets_uncredited(s) ==
    LET in_showdown == {i \in DOMAIN s.hand_player_order :
                           s.players[s.hand_player_order[i]].state # "Folded"}
        top == CHOOSE i \in in_showdown :
                   \A j \in in_showdown : s.bets[i] >= s.bets[j]
        rest == in_showdown \ {top}
        second == CHOOSE i \in rest : \A j \in rest : s.bets[i] >= s.bets[j]
        amount == s.bets[top] - s.bets[second]
    IN IF Cardinality(in_showdown) < 2 \/ amount = 0 THEN Out(s, <<>>, FALSE)
       ELSE Out([s EXCEPT !.pot = @ - amount, !.bets[top] = s.bets[second]],
                <<EvBetReturned(s.hand_player_order[top], amount,
                                s.players[s.hand_player_order[top]].stack)>>,
                FALSE)

\* The entry the descending stable sort puts first, and the bet of the
\* entry it puts second.
return_uncalled_bets(s) ==
    LET in_showdown == {i \in DOMAIN s.hand_player_order :
                           s.players[s.hand_player_order[i]].state
                               \notin {"Folded", "SittingOut"}}
    IN IF Cardinality(in_showdown) < 2 THEN Out(s, <<>>, FALSE)
       ELSE
       LET highest == CHOOSE i \in in_showdown : \A j \in in_showdown :
                          \/ s.bets[i] > s.bets[j]
                          \/ s.bets[i] = s.bets[j] /\ i <= j
           rest == in_showdown \ {highest}
           second_highest_bet ==
               s.bets[CHOOSE i \in rest : \A j \in rest : s.bets[i] >= s.bets[j]]
           amount_to_return == s.bets[highest] - second_highest_bet
           pid == s.hand_player_order[highest]
           stack == s.players[pid].stack + amount_to_return
       IN IF s.bets[highest] > second_highest_bet
          THEN Out([s EXCEPT !.players[pid].stack = stack,
                             !.pot = @ - amount_to_return,
                             !.bets[highest] = second_highest_bet],
                   <<EvBetReturned(pid, amount_to_return, stack)>>, FALSE)
          ELSE Out(s, <<>>, FALSE)

\* Steps 4 and 5 of distribute_pots for one level: the pot of the level and
\* the winners among the contributors eligible for it, in hand order.
pot_at_level(bet_amount, level, last_level) ==
    SumOver([i \in DOMAIN bet_amount |->
                IF bet_amount[i] > last_level
                THEN Min(level - last_level, bet_amount[i] - last_level)
                ELSE 0],
            DOMAIN bet_amount)

RECURSIVE scan_winners(_, _, _, _, _)
scan_winners(eligible, rank, i, best_rank, winners) ==
    IF i \notin DOMAIN rank THEN winners
    ELSE IF i \notin eligible
    THEN scan_winners(eligible, rank, i + 1, best_rank, winners)
    ELSE IF best_rank = NoRank \/ rank[i] > best_rank
    THEN scan_winners(eligible, rank, i + 1, rank[i], <<i>>)
    ELSE IF rank[i] = best_rank
    THEN scan_winners(eligible, rank, i + 1, best_rank, Append(winners, i))
    ELSE scan_winners(eligible, rank, i + 1, best_rank, winners)

level_winners(bet_amount, rank, level) ==
    scan_winners({i \in DOMAIN bet_amount :
                     bet_amount[i] >= level /\ rank[i] # NoRank},
                 rank, 0, NoRank, <<>>)

\* The split without the odd chips.
share_without_remainder(current_pot, winners, i) ==
    IF \E k \in DOMAIN winners : winners[k] = i
    THEN current_pot \div Len(winners)
    ELSE 0

\* Step 6: the share of contributor i in a pot split among winners.
share(current_pot, winners, i) ==
    IF \E k \in DOMAIN winners : winners[k] = i
    THEN (current_pot \div Len(winners))
         + (IF winners[1] = i THEN current_pot % Len(winners) ELSE 0)
    ELSE 0

\* The loop over bet_levels: total_winnings per index of hand_player_order.
RECURSIVE distribute_levels(_, _, _, _, _)
distribute_levels(bet_amount, rank, levels, last_level, total_winnings) ==
    IF levels = {} THEN total_winnings
    ELSE
    LET level == CHOOSE l \in levels : \A m \in levels : l <= m
        current_pot == pot_at_level(bet_amount, level, last_level)
        winners == level_winners(bet_amount, rank, level)
    IN IF current_pot = 0 \/ Len(winners) = 0
       THEN distribute_levels(bet_amount, rank, levels \ {level}, level,
                              total_winnings)
       ELSE distribute_levels(bet_amount, rank, levels \ {level}, level,
                [i \in DOMAIN total_winnings |->
                    total_winnings[i] + share(current_pot, winners, i)])

distribute_pots(s, ranks) ==
    IF s.pot = 0 THEN Out(s, <<>>, FALSE)
    ELSE
    LET order == s.hand_player_order
        rank == [i \in DOMAIN order |->
                    IF s.players[order[i]].state # "Folded"
                       /\ IsSome(s.player_cards[i])
                    THEN ranks[i] ELSE NoRank]
        bet_levels == {s.bets[i] : i \in DOMAIN order} \ {0}
        total_winnings == distribute_levels(s.bets, rank, bet_levels, 0,
                                            [i \in DOMAIN order |-> 0])
        ids == {order[i] : i \in DOMAIN order}
        IndexOf(id) == CHOOSE i \in DOMAIN order : order[i] = id
        paid == [p \in DOMAIN s.players |->
                    IF p \in ids
                    THEN [s.players[p] EXCEPT
                            !.stack = @ + total_winnings[IndexOf(p)]]
                    ELSE s.players[p]]
        busted == [p \in DOMAIN paid |->
                      IF p \in ids /\ paid[p].stack = 0
                      THEN [paid[p] EXCEPT !.state = "Offline"]
                      ELSE paid[p]]
        results == {ShowdownResult(order[i], rank[i],
                                   s.player_cards[s.player_indices[order[i]]],
                                   total_winnings[i]) :
                       i \in {j \in DOMAIN order : rank[j] # NoRank}}
    IN Out([s EXCEPT !.players = busted, !.pot = 0],
           <<EvShowdown(results)>>, FALSE)

handle_showdown(s, ranks) ==
    LET distributed(r, d) == Out(d.s, r.msgs \o d.msgs, FALSE)
        returned(r) == distributed(r, distribute_pots(r.s, ranks))
    IN returned(return_uncalled_bets(s))

distribute_pot_to_single_winner_group(s, winners, ranks) ==
    IF Len(winners) = 0 \/ s.pot = 0 THEN Out(s, <<>>, FALSE)
    ELSE
    LET win_amount_per_player == s.pot \div Len(winners)
        remainder == s.pot % Len(winners)
        community == {i \in DOMAIN s.community_cards :
                         s.community_cards[i] # NoCard}
        Winnings(k) == win_amount_per_player + (IF k = 1 THEN remainder ELSE 0)
        KOf(p) == CHOOSE k \in DOMAIN winners : winners[k] = p
        wset == {winners[k] : k \in DOMAIN winners}
        paid == [p \in DOMAIN s.players |->
                    IF p \in wset
                    THEN [s.players[p] EXCEPT !.stack = @ + Winnings(KOf(p))]
                    ELSE s.players[p]]
        results == {IF Cardinality(community) >= 3
                    THEN ShowdownResult(winners[k],
                             ranks[s.player_indices[winners[k]]],
                             s.player_cards[s.player_indices[winners[k]]],
                             Winnings(k))
                    ELSE ShowdownResult(winners[k], NoRank,
                                        <<NoCard, NoCard>>, Winnings(k)) :
                       k \in DOMAIN winners}
    IN Out([s EXCEPT !.players = paid, !.pot = 0],
           <<EvShowdown(results)>>, FALSE)

\* -------------------------------------------- logic.rs: betting rounds
advance_to_next_player(s) ==
    LET n == VLen(s.hand_player_order)
        At(k) == (s.cur_player_idx + k) % n
        Can(k) == /\ s.players[s.hand_player_order[At(k)]].state = "Playing"
                  /\ ~s.player_has_acted[At(k)]
        found == {k \in 1..n : Can(k)}
    IN IF n = 0 \/ found = {} THEN Out(s, <<>>, FALSE)
       ELSE
       LET current_idx == At(CHOOSE k \in found : \A m \in found : k <= m)
           need_call_amount == s.max_bet - s.bets[current_idx]
           need_raise_amount == need_call_amount + s.last_raise_amount
       IN Out([s EXCEPT !.cur_player_idx = current_idx],
              <<EvNextToAct(s.hand_player_order[current_idx],
                  <<IF need_call_amount > 0
                    THEN ActionType("Call", need_call_amount)
                    ELSE ActionType("Check", 0),
                    IF need_call_amount > 0
                    THEN ActionType("Raise", need_raise_amount)
                    ELSE ActionType("Bet", need_raise_amount),
                    ActionType("Fold", 0)>>)>>,
              FALSE)

check_betting_round_over(s) ==
    LET players_to_act == {i \in DOMAIN s.hand_player_order :
                              s.players[s.hand_player_order[i]].state
                                  \notin {"Folded", "AllIn"}}
    IN \/ players_to_act = {}
       \/ /\ \A i \in players_to_act : s.bets[i] = s.max_bet
          /\ \A i \in players_to_act : s.player_has_acted[i]

\* deck.pop().unwrap(): a panic on an empty deck.
preflop_to_flop(s) ==
    LET d == s.deck
        top == Len(d)
    IN IF top < 3 THEN Out([s EXCEPT !.phase = "Flop"], <<>>, TRUE)
       ELSE Out([s EXCEPT !.phase = "Flop",
                          !.deck = SubSeq(d, 1, top - 3),
                          !.community_cards[0] = d[top],
                          !.community_cards[1] = d[top - 1],
                          !.community_cards[2] = d[top - 2]],
                <<EvCommunityCardsDealt("Flop", <<d[top], d[top - 1], d[top - 2]>>)>>,
                FALSE)

deal_street(s, phase, slot) ==
    LET d == s.deck
        top == Len(d)
    IN IF top < 1 THEN Out([s EXCEPT !.phase = phase], <<>>, TRUE)
       ELSE Out([s EXCEPT !.phase = phase,
                          !.deck = SubSeq(d, 1, top - 1),
                          !.community_cards[slot] = d[top]],
                <<EvCommunityCardsDealt(phase, <<d[top]>>)>>, FALSE)

\* A turn card that takes the first slot of the flop.
flop_to_turn_over_flop(s) == deal_street(s, "Turn", 0)

flop_to_turn(s) == deal_street(s, "Turn", 3)

turn_to_river(s) == deal_street(s, "River", 4)

\* The next street only, whatever is still to come.
run_out_one_street(s) ==
    CASE s.phase = "PreFlop" -> preflop_to_flop(s)
      [] s.phase = "Flop" -> flop_to_turn(s)
      [] s.phase = "Turn" -> turn_to_river(s)
      [] OTHER -> Out(s, <<>>, FALSE)

\* The loop of the auto-runout: every street still to come, in order.
RECURSIVE run_out(_)
run_out(s) ==
    LET r == CASE s.phase = "PreFlop" -> preflop_to_flop(s)
               [] s.phase = "Flop" -> flop_to_turn(s)
               [] s.phase = "Turn" -> turn_to_river(s)
               [] OTHER -> Out(s, <<>>, FALSE)
    IN IF s.phase \notin {"PreFlop", "Flop", "Turn"} \/ r.panic THEN r
       ELSE LET q == run_out(r.s) IN Out(q.s, r.msgs \o q.msgs, q.panic)

\* The hand-players who can still act in the round that opens: neither
\* Folded nor AllIn.
potential_actors(s) ==
    {i \in DOMAIN s.hand_player_order :
        s.players[s.hand_player_order[i]].state \notin {"Folded", "AllIn"}}

\* The lowest index that can act, the button's own index 0 included.
first_potential_actor_from_button(s) ==
    IF potential_actors(s) = {} THEN 0
    ELSE CHOOSE i \in potential_actors(s) :
             \A j \in potential_actors(s) : i <= j

\* potential_actors[0]: the indices are visited in the order 1..n-1, 0.
first_potential_actor(s) ==
    LET after_button == potential_actors(s) \ {0}
    IN IF after_button # {}
       THEN CHOOSE i \in after_button : \A j \in after_button : i <= j
       ELSE 0

advance_to_next_phase(s, ranks) ==
    LET s1 == [s EXCEPT
                 !.player_has_acted = [i \in DOMAIN @ |-> FALSE],
                 !.last_raise_amount = big_blind]
    IN IF s1.phase = "River"
       THEN handle_showdown([s1 EXCEPT !.phase = "Showdown"], ranks)
       ELSE IF s1.phase \notin {"PreFlop", "Flop", "Turn"}
       THEN Out(s1, <<>>, FALSE)
       ELSE
       LET street_dealt(r) ==
               LET first == first_potential_actor(r.s)
                   shown(q, h) == Out(h.s, r.msgs \o q.msgs \o h.msgs, FALSE)
                   board_run_out(q) ==
                       IF q.panic THEN Out(q.s, r.msgs \o q.msgs, TRUE)
                       ELSE shown(q, handle_showdown(
                                         [q.s EXCEPT !.phase = "Showdown"],
                                         ranks))
               IN IF r.panic THEN r
                  ELSE IF Cardinality(potential_actors(r.s)) < 2
                  THEN board_run_out(run_out(r.s))
                  ELSE Out([r.s EXCEPT !.cur_player_idx = first],
                           r.msgs
                           \o <<EvNextToAct(r.s.hand_player_order[first],
                                  <<ActionType("Check", 0),
                                    ActionType("Bet", r.s.last_raise_amount),
                                    ActionType("Fold", 0)>>)>>,
                           FALSE)
       IN street_dealt(CASE s1.phase = "PreFlop" -> preflop_to_flop(s1)
                         [] s1.phase = "Flop" -> flop_to_turn(s1)
                         [] OTHER -> turn_to_river(s1))

\* A size check that only asks for chips the player has and, when raising,
\* for a total above max_bet.
bet_or_raise_error_without_minimum(s, player_id, player_idx, raise_amount) ==
    IF raise_amount = 0 \/ raise_amount > s.players[player_id].stack
    THEN "more_than_stack"
    ELSE IF s.max_bet # s.bets[player_idx]
            /\ s.bets[player_idx] + raise_amount <= s.max_bet
    THEN "raise_not_above_max_bet"
    ELSE ""

\* The validation of BetOrRaise(raise_amount): the error it returns, or
\* none.
bet_or_raise_error(s, player_id, player_idx, raise_amount) ==
    LET player == s.players[player_id]
        player_total_bet == s.bets[player_idx]
        new_total_bet == player_total_bet + raise_amount
    IN IF raise_amount = 0 \/ raise_amount > player.stack
       THEN "more_than_stack"
       ELSE IF s.max_bet = player_total_bet
       THEN IF raise_amount < big_blind /\ player.stack > raise_amount
            THEN "bet_below_big_blind"
            ELSE ""
       ELSE IF new_total_bet <= s.max_bet
       THEN "raise_not_above_max_bet"
       ELSE IF new_total_bet - s.max_bet < s.last_raise_amount
               /\ player.stack > raise_amount
       THEN "raise_below_minimum"
       ELSE ""

\* The match on the action: the state it leaves, or the error it returns.
apply_action(s, player_id, player_idx, action) ==
    LET player == s.players[player_id]
        player_total_bet == s.bets[player_idx]
        amount_to_call == s.max_bet - player_total_bet
        Ok(t) == [err |-> "", s |-> t]
        Err(why) == [err |-> why, s |-> s]
    IN CASE action.kind = "Fold" -> Ok(SetState(s, player_id, "Folded"))
         [] action.kind = "Check" ->
              IF amount_to_call # 0 THEN Err("check_while_owed") ELSE Ok(s)
         [] action.kind = "Call" ->
              IF amount_to_call > 0
              THEN LET call_amount == Min(amount_to_call, player.stack)
                       left == player.stack - call_amount
                   IN Ok([s EXCEPT !.players[player_id].stack = left,
                                   !.players[player_id].state =
                                       IF left = 0 THEN "AllIn" ELSE @,
                                   !.pot = @ + call_amount,
                                   !.bets[player_idx] = @ + call_amount])
              ELSE Ok(s)
         [] OTHER ->
              LET raise_amount == action.amount
                  new_total_bet == player_total_bet + raise_amount
                  left == player.stack - raise_amount
                  why == bet_or_raise_error(s, player_id, player_idx,
                                            raise_amount)
              IN IF why # "" THEN Err(why)
                 ELSE Ok([s EXCEPT
                            !.players[player_id].stack = left,
                            !.players[player_id].state =
                                IF left = 0 THEN "AllIn" ELSE @,
                            !.pot = @ + raise_amount,
                            !.bets[player_idx] = new_total_bet,
                            !.last_raise_amount =
                                IF new_total_bet > s.max_bet /\ left > 0
                                THEN new_total_bet - s.max_bet ELSE @,
                            !.max_bet =
                                IF new_total_bet > @ THEN new_total_bet ELSE @,
                            !.player_has_acted =
                                [i \in DOMAIN @ |->
                                    IF /\ i \in DOMAIN s.hand_player_order
                                       /\ s.hand_player_order[i] # player_id
                                       /\ s.players[s.hand_player_order[i]].state
                                              \notin {"Folded", "AllIn"}
                                    THEN FALSE ELSE @[i]]])

\* The turn check with which handle_player_action opens.
not_your_turn_never(s, player_id) == FALSE

not_your_turn(s, player_id) == current_player_id(s) # player_id

handle_player_action(s, player_id, action, ranks) ==
    IF not_your_turn(s, player_id)
    THEN Out(s, <<EvError("not_your_turn")>>, FALSE)
    ELSE IF player_id \notin DOMAIN s.player_indices
    THEN Out(s, <<>>, TRUE)
    ELSE
    LET player_idx == s.player_indices[player_id]
    IN IF player_idx \notin DOMAIN s.bets \/ s.bets[player_idx] > s.max_bet
       THEN Out(s, <<>>, TRUE)
       ELSE
       LET applied(a) ==
               LET acted == EvPlayerActed(player_id, action,
                                          a.s.bets[player_idx],
                                          a.s.players[player_id].stack,
                                          a.s.pot)
                   s1 == [a.s EXCEPT !.player_has_acted[player_idx] = TRUE]
                   nf == NonFolded(s1)
                   players_in_hand ==
                       [k \in 1..Cardinality(nf) |->
                           s1.hand_player_order[
                               CHOOSE i \in nf :
                                   Cardinality({j \in nf : j < i}) = k - 1]]
                   moved_on(r) == Out(r.s, <<acted>> \o r.msgs, r.panic)
               IN IF a.err # "" THEN Out(s, <<EvError(a.err)>>, FALSE)
                  ELSE moved_on(
                           IF Len(players_in_hand) <= 1
                           THEN distribute_pot_to_single_winner_group(
                                    [s1 EXCEPT !.phase = "Showdown"],
                                    players_in_hand, ranks)
                           ELSE IF check_betting_round_over(s1)
                           THEN advance_to_next_phase(s1, ranks)
                           ELSE advance_to_next_player(s1))
       IN applied(apply_action(s, player_id, player_idx, action))

\* A tick that acts for the current actor of a betting phase whether or
\* not that player is Offline.
tick_for_anyone(s, ranks) ==
    IF s.phase \in {"WaitingForPlayers", "Showdown"}
    THEN [acted |-> FALSE, s |-> s, msgs |-> <<>>, panic |-> FALSE]
    ELSE IF current_player_id(s) = NoPlayer
    THEN [acted |-> FALSE, s |-> s, msgs |-> <<>>, panic |-> TRUE]
    ELSE
    LET player_id == current_player_id(s)
        amount_to_call == s.max_bet - s.bets[s.player_indices[player_id]]
        action == IF amount_to_call = 0 THEN Check ELSE Fold
        auto_action(r) ==
            [acted |-> TRUE, s |-> r.s, msgs |-> r.msgs, panic |-> r.panic]
    IN auto_action(handle_player_action(s, player_id, action, ranks))

tick(s, ranks) ==
    IF s.phase \in {"WaitingForPlayers", "Showdown"}
    THEN [acted |-> FALSE, s |-> s, msgs |-> <<>>, panic |-> FALSE]
    ELSE IF current_player_id(s) = NoPlayer
    THEN [acted |-> FALSE, s |-> s, msgs |-> <<>>, panic |-> TRUE]
    ELSE
    LET player_id == current_player_id(s)
        is_auto_action == s.players[player_id].state = "Offline"
        amount_to_call == s.max_bet - s.bets[s.player_indices[player_id]]
        action == IF amount_to_call = 0 THEN Check ELSE Fold
        auto_action(r) ==
            [acted |-> TRUE, s |-> r.s, msgs |-> r.msgs, panic |-> r.panic]
    IN IF is_auto_action
       THEN auto_action(handle_player_action(s, player_id, action, ranks))
       ELSE [acted |-> FALSE, s |-> s, msgs |-> <<>>, panic |-> FALSE]

\* ------------------------------------------------ main.rs: the handlers
Stacks(s) == [p \in DOMAIN s.players |-> s.players[p].stack]

TotalChips(s) == SumOver(Stacks(s), DOMAIN s.players) + s.pot

Ranks == [0..(NumPlayers - 1) -> 1..MaxRank]

Actions == {Fold, Check, Call} \cup {BetOrRaise(d) : d \in 0..MaxDelta}

\* Every event, an Error included, to every target.
dispatch_to_all(sender, targets, broadcast_messages, only_messages) ==
    [c \in ConnIds |->
        (IF c \in targets THEN broadcast_messages ELSE <<>>)
        \o (IF c = sender THEN only_messages ELSE <<>>)]

\* The dispatch after the lock is released: an Error goes to the sender's
\* own channel, every other event to the targets snapshot, in order; the
\* only_messages follow on the sender's channel.
dispatch(sender, targets, broadcast_messages, only_messages) ==
    [c \in ConnIds |->
        LET Mine(m) == IF m.type = "Error" THEN c = sender ELSE c \in targets
        IN SelectSeq(broadcast_messages, Mine)
           \o (IF c = sender THEN only_messages ELSE <<>>)]

rotate_left(q) == IF Len(q) = 0 THEN q ELSE Append(Tail(q), Head(q))

Live == connections \ crashed

\* A handler that panics: its task ends with the room as the panic left
\* it; nothing is dispatched and the connection is never cleaned up.
Panicked(p, s) ==
    /\ game_state' = s
    /\ crashed' = crashed \cup {p}
    /\ msgs' = <<>>
    /\ sent' = [c \in ConnIds |-> <<>>]
    /\ UNCHANGED <<host_id, connections>>
    /\ UNCHANGED session

Delivered(p, s, events) ==
    /\ game_state' = s
    /\ msgs' = events
    /\ sent' = dispatch(p, connections, events, <<>>)
    /\ UNCHANGED <<host_id, connections, crashed>>
    /\ UNCHANGED session

\* ---------------------------------------------- main.rs: RequestSeat
\* players[p].seat_id, kept beside the players: None for a player who has
\* not taken a seat.
SeatOf(s, p) == IF p \in DOMAIN s.seat_ids THEN s.seat_ids[p] ELSE NoSeat

\* logic.rs: the 0-based position at which a player taking seat
\* new_player_seat_id enters seated_players; the seat of the player at the
\* head of the deque is the anchor of the comparison.
find_insertion_index(s, new_player_seat_id) ==
    LET q == s.seated_players
    IN IF q = <<>> THEN 0
       ELSE
       LET start_sid == SeatOf(s, q[1])
           Before(existing_sid) ==
               LET new_side == new_player_seat_id >= start_sid
                   old_side == existing_sid >= start_sid
               IN IF new_side = old_side
                  THEN new_player_seat_id < existing_sid
                  ELSE ~new_side /\ old_side
           found == {k \in DOMAIN q : Before(SeatOf(s, q[k]))}
       IN IF found = {} THEN Len(q)
          ELSE (CHOOSE k \in found : \A j \in found : k <= j) - 1

\* VecDeque::insert(index, id) with a 0-based index.
insert_at(q, index, id) ==
    SubSeq(q, 1, index) \o <<id>> \o SubSeq(q, index + 1, Len(q))

\* A RequestSeat arm that seats the player whatever the phase.
request_seat_any_phase(s, player_id, seat_id, stack) ==
    IF seat_id >= seats
    THEN [s |-> s, msgs |-> <<>>, only |-> <<EvError("seat_range")>>]
    ELSE IF \E p \in DOMAIN s.players : SeatOf(s, p) = seat_id /\ p # player_id
    THEN [s |-> s, msgs |-> <<>>, only |-> <<EvError("seat_taken")>>]
    ELSE
    LET s1 == [s EXCEPT
                 !.seated_players = SelectSeq(@, LAMBDA p : p # player_id),
                 !.players[player_id] = Player(stack, "Waiting"),
                 !.seat_ids = [p \in DOMAIN @ \cup {player_id} |->
                                  IF p = player_id THEN seat_id ELSE @[p]]]
        sid == find_insertion_index(s1, seat_id)
        s2 == [s1 EXCEPT !.seated_players = insert_at(@, sid, player_id)]
    IN [s |-> s2,
        msgs |-> <<EvPlayerUpdated(player_id, s2.players[player_id])>>,
        only |-> <<>>]

\* The RequestSeat arm: the error it answers with, or the room with the
\* player seated and the PlayerUpdated to broadcast.
request_seat(s, player_id, seat_id, stack) ==
    IF s.phase \notin {"WaitingForPlayers", "Showdown"}
    THEN [s |-> s, msgs |-> <<>>, only |-> <<EvError("seat_phase")>>]
    ELSE IF seat_id >= seats
    THEN [s |-> s, msgs |-> <<>>, only |-> <<EvError("seat_range")>>]
    ELSE IF \E p \in DOMAIN s.players : SeatOf(s, p) = seat_id /\ p # player_id
    THEN [s |-> s, msgs |-> <<>>, only |-> <<EvError("seat_taken")>>]
    ELSE
    LET s1 == [s EXCEPT
                 !.seated_players = SelectSeq(@, LAMBDA p : p # player_id),
                 !.players[player_id] = Player(stack, "Waiting"),
                 !.seat_ids = [p \in DOMAIN @ \cup {player_id} |->
                                  IF p = player_id THEN seat_id ELSE @[p]]]
        sid == find_insertion_index(s1, seat_id)
        s2 == [s1 EXCEPT !.seated_players = insert_at(@, sid, player_id)]
    IN [s |-> s2,
        msgs |-> <<EvPlayerUpdated(player_id, s2.players[player_id])>>,
        only |-> <<>>]

SeatIds == 0..MaxSeat \cup {seats}

SeatStacks == {0, MaxStack}

RequestSeat(p, seat_id, stack) ==
    /\ p \in Live
    /\ \E r \in {request_seat(game_state, p, seat_id, stack)} :
          /\ game_state' = r.s
          /\ msgs' = r.msgs
          /\ sent' = dispatch(p, connections, r.msgs, r.only)
    /\ UNCHANGED <<host_id, connections, crashed, hands, start_total, in_hand,
                   idle_actions>>
    /\ UNCHANGED session

\* A refusal that has already moved the button.
StartHandNotHostRotating(p) ==
    /\ p \in Live
    /\ p # host_id
    /\ Delivered(p, [game_state EXCEPT !.seated_players = rotate_left(@)],
                 <<EvError("host_only")>>)
    /\ UNCHANGED <<hands, start_total, in_hand, idle_actions>>

StartHandNotHost(p) ==
    /\ p \in Live
    /\ p # host_id
    /\ Delivered(p, game_state, <<EvError("host_only")>>)
    /\ UNCHANGED <<hands, start_total, in_hand, idle_actions>>

StartHand(p) ==
    /\ p \in Live
    /\ p = host_id
    /\ hands < MaxHands
    /\ hands' = hands + 1
    /\ idle_actions' = 0
    /\ start_total' = TotalChips(game_state) - game_state.pot
    /\ IF Len(game_state.seated_players) = 0
       THEN Panicked(p, game_state) /\ in_hand' = FALSE
       ELSE \E r \in {start_new_hand([game_state EXCEPT
                           !.seated_players = rotate_left(@)])} :
               /\ IF r.panic THEN Panicked(p, r.s)
                  ELSE Delivered(p, r.s, r.msgs)
               /\ in_hand' = (~r.panic /\ r.s.phase = "PreFlop")

\* PerformAction: the action, then one tick for an Offline actor.
perform_action(s, p, action, ranks) ==
    LET ticked(r, t) ==
            IF t.panic THEN Out(t.s, <<>>, TRUE)
            ELSE Out(t.s, r.msgs \o (IF t.acted THEN t.msgs ELSE <<>>), FALSE)
        handled(r) == IF r.panic THEN Out(r.s, <<>>, TRUE)
                      ELSE ticked(r, tick(r.s, ranks))
    IN handled(handle_player_action(s, p, action, ranks))

\* The hand ranks are read only by a handler that reaches a showdown; any
\* other handler is the same under every draw.
ReachesShowdown(o) == \E k \in DOMAIN o.msgs : o.msgs[k].type = "Showdown"

PerformAction(p, action) ==
    /\ p \in Live
    /\ game_state.phase \notin BettingPhases => idle_actions < MaxIdleActions
    /\ idle_actions' = IF game_state.phase \in BettingPhases
                       THEN idle_actions ELSE idle_actions + 1
    /\ \E o \in {perform_action(game_state, p, action,
                                 [i \in 0..(NumPlayers - 1) |-> 1])} :
          IF o.panic THEN Panicked(p, o.s)
          ELSE IF ~ReachesShowdown(o) THEN Delivered(p, o.s, o.msgs)
          ELSE \E d \in {perform_action(game_state, p, action, ranks) :
                             ranks \in Ranks} :
                  Delivered(p, d.s, d.msgs)
    /\ UNCHANGED <<hands, start_total, in_hand>>

Disconnect(p) ==
    /\ p \in Live
    /\ Cardinality(DOMAIN game_state.players \ connections) < MaxDisconnects
    /\ LET left == connections \ {p}
           s == IF p \in DOMAIN game_state.players
                THEN SetState(game_state, p, "Offline") ELSE game_state
           update == IF p \in DOMAIN game_state.players
                     THEN <<EvPlayerUpdated(p, s.players[p])>> ELSE <<>>
       IN /\ connections' = left
          /\ game_state' = s
          /\ \E new_host \in (IF p = host_id /\ left # {} THEN left ELSE {host_id}) :
                /\ host_id' = new_host
                /\ msgs' = update \o (IF p = host_id /\ left # {}
                                      THEN <<EvInfo(new_host)>> ELSE <<>>)
          /\ sent' = dispatch(NoPlayer, left, msgs', <<>>)
    /\ UNCHANGED <<crashed, hands, start_total, in_hand, idle_actions>>
    /\ UNCHANGED session

\* The room after CreateRoom by player 1, JoinRoom by the others and one
\* RequestSeat{seat_id, stack} each, in seat order.
Init ==
    /\ \E stacks \in [PlayerIds -> 0..MaxStack] :
          game_state = [DefaultGameState EXCEPT
                          !.players = [p \in PlayerIds |->
                                          Player(stacks[p], "Waiting")],
                          !.seated_players = [i \in 1..NumPlayers |-> i],
                          !.seat_ids = [p \in PlayerIds |-> p - 1]]
    /\ host_id = 1
    /\ connections = PlayerIds
    /\ crashed = {}
    /\ msgs = <<>>
    /\ sent = [c \in ConnIds |-> <<>>]
    /\ hands = 0
    /\ start_total = 0
    /\ in_hand = FALSE
    /\ idle_actions = 0
    /\ SessionIdle

Next ==
    \/ \E p \in ConnIds : StartHand(p)
    \/ \E p \in ConnIds : StartHandNotHost(p)
    \/ \E p \in ConnIds, a \in Actions : PerformAction(p, a)
    \/ \E p \in ConnIds : Disconnect(p)

Spec == Init /\ [][Next]_vars

\* The room after CreateRoom by player 1 and JoinRoom by the others, when
\* only some of them, or none, have taken a seat with RequestSeat: a player
\* without a seat is SittingOut with no chips, as CreateRoom and JoinRoom
\* made him.
InitSeats ==
    /\ \E taken \in SUBSET PlayerIds :
       \E stacks \in [taken -> 0..MaxStack] :
          game_state = [DefaultGameState EXCEPT
                          !.players = [p \in PlayerIds |->
                                          IF p \in taken
                                          THEN Player(stacks[p], "Waiting")
                                          ELSE Player(0, "SittingOut")],
                          !.seated_players =
                              SelectSeq([i \in 1..NumPlayers |-> i],
                                        LAMBDA p : p \in taken),
                          !.seat_ids = [p \in taken |-> p - 1]]
    /\ host_id = 1
    /\ connections = PlayerIds
    /\ crashed = {}
    /\ msgs = <<>>
    /\ sent = [c \in ConnIds |-> <<>>]
    /\ hands = 0
    /\ start_total = 0
    /\ in_hand = FALSE
    /\ idle_actions = 0
    /\ SessionIdle

SpecSeats == InitSeats /\ [][Next]_vars

\* A heads-up table with stacks deep enough for a raise and a re-raise that
\* leave chips behind: players 1 and 2 seated, player 3 without a seat.
InitDeep ==
    /\ \E stacks \in [{1, 2} -> (DeepStack - 1)..DeepStack] :
          game_state = [DefaultGameState EXCEPT
                          !.players = [p \in PlayerIds |->
                                          IF p \in DOMAIN stacks
                                          THEN Player(stacks[p], "Waiting")
                                          ELSE Player(0, "SittingOut")],
                          !.seated_players = <<1, 2>>,
                          !.seat_ids = [p \in {1, 2} |-> p - 1]]
    /\ host_id = 1
    /\ connections = PlayerIds
    /\ crashed = {}
    /\ msgs = <<>>
    /\ sent = [c \in ConnIds |-> <<>>]
    /\ hands = 0
    /\ start_total = 0
    /\ in_hand = FALSE
    /\ idle_actions = 0
    /\ SessionIdle

NextDeep ==
    \/ \E p \in ConnIds : StartHand(p)
    \/ \E p \in ConnIds, a \in Actions : PerformAction(p, a)

SpecDeep == InitDeep /\ [][NextDeep]_vars

\* The room after CreateRoom by player 1 and JoinRoom by the others: nobody
\* has a seat or chips yet.
InitSeating ==
    /\ game_state = [DefaultGameState EXCEPT
                        !.players = [p \in PlayerIds |->
                                        Player(0, "SittingOut")]]
    /\ host_id = 1
    /\ connections = PlayerIds
    /\ crashed = {}
    /\ msgs = <<>>
    /\ sent = [c \in ConnIds |-> <<>>]
    /\ hands = 0
    /\ start_total = 0
    /\ in_hand = FALSE
    /\ idle_actions = 0
    /\ SessionIdle

\* The seats are taken and the button moves; a hand that starts is folded
\* out, which is the shortest way to the next phase that admits a seat.
NextSeating ==
    \/ \E p \in ConnIds : StartHand(p)
    \/ \E p \in ConnIds : StartHandNotHost(p)
    \/ \E p \in ConnIds : PerformAction(p, Fold)
    \/ \E p \in ConnIds, seat_id \in SeatIds, stack \in SeatStacks :
          RequestSeat(p, seat_id, stack)

SpecSeating == InitSeating /\ [][NextSeating]_vars

\* ------------------------------------------------- main.rs: JoinRoom
\* JoinRoom on a connection that is in no room yet: a new player, SittingOut
\* with no chips and no seat, enters the room's players and connections;
\* PlayerJoined goes to the others and RoomJoined, with the state projected
\* for the new player, to that player's own channel.
join_room(s, player_id) ==
    LET player == Player(0, "SittingOut")
        joined == [s EXCEPT !.players =
                      [p \in DOMAIN @ \cup {player_id} |->
                          IF p = player_id THEN player ELSE @[p]]]
    IN [s |-> joined,
        join_broadcast_msg |-> EvPlayerJoined(player_id, player),
        join_msg |-> EvRoomJoined(player_id, for_client(joined, player_id),
                                  host_id)]

JoinRoom(j) ==
    /\ j \notin DOMAIN game_state.players
    /\ connections # {}
    /\ \E r \in {join_room(game_state, j)} :
          /\ game_state' = r.s
          /\ connections' = connections \cup {j}
          /\ msgs' = <<r.join_broadcast_msg, r.join_msg>>
          /\ sent' = [c \in ConnIds |->
                        IF c = j THEN <<r.join_msg>>
                        ELSE IF c \in connections
                        THEN <<r.join_broadcast_msg>> ELSE <<>>]
    /\ UNCHANGED <<host_id, crashed, hands, start_total, in_hand,
                   idle_actions>>
    /\ UNCHANGED session

NextJoin ==
    \/ Next
    \/ \E j \in Joiners : JoinRoom(j)

SpecJoin == Init /\ [][NextJoin]_vars

\* --------------------------------- main.rs: the handlers, step by step
\* A handler changes the room inside a block that holds the DashMap guard
\* of the room and sends what it has to send after the block, one
\* mpsc send at a time; the handlers of other connections run in between.

\* One send still to make: the event, the channel it goes to and the number
\* of the mutation it comes from (0 when the handler changed no room).
SendOf(to, ev, seq) == [to |-> to, ev |-> ev, seq |-> seq]

\* create_msg_targets: the connections in the order the HashMap yields
\* them, which is any order.
TargetOrders(conns) ==
    {q \in [1..Cardinality(conns) -> conns] :
        \A i, j \in DOMAIN q : i # j => q[i] # q[j]}

broadcast(targets, message, exclude, seq) ==
    LET to == SelectSeq(targets, LAMBDA c : c # exclude)
    IN [k \in DOMAIN to |-> SendOf(to[k], message, seq)]

\* The loops after the block: an Error to the sender's own channel, any
\* other event to every target, event by event, then the only_messages.
RECURSIVE broadcast_loop(_, _, _, _)
broadcast_loop(sender, targets, broadcast_messages, seq) ==
    IF broadcast_messages = <<>> THEN <<>>
    ELSE LET msg == Head(broadcast_messages)
         IN (IF msg.type = "Error" THEN <<SendOf(sender, msg, seq)>>
             ELSE broadcast(targets, msg, NoPlayer, seq))
            \o broadcast_loop(sender, targets, Tail(broadcast_messages), seq)

\* A task with nothing left to send is back at its receive loop, or gone.
Entered(at, pending) ==
    IF pending # <<>> THEN Task(at, pending)
    ELSE Task(CASE at = "sending" -> "bound"
                [] at = "refused" -> "unbound"
                [] at = "leaving" -> "closed"
                [] OTHER -> at, <<>>)

Refusals(c) ==
    Len(SelectSeq(queue[c], LAMBDA e : e.ev = EvError("no_room")))

\* A block that makes the first of its sends before it drops the guard.
HandledSendingInside(p, s, events) ==
    /\ game_state' = s
    /\ msgs' = events
    /\ mutations' = mutations + 1
    /\ \E targets \in TargetOrders(connections) :
       \E sends \in {broadcast_loop(p, targets, events, mutations + 1)} :
          /\ tasks' = [tasks EXCEPT ![p] =
                          Entered("sending",
                                  IF sends = <<>> THEN <<>> ELSE Tail(sends))]
          /\ queue' = IF sends = <<>> THEN queue
                      ELSE [queue EXCEPT ![sends[1].to] =
                               Append(@, [ev |-> sends[1].ev,
                                          seq |-> sends[1].seq])]
    /\ UNCHANGED <<host_id, connections, crashed, registry>>

\* The guarded block of a handler of the authenticated branch ends with the
\* room in state s and the events to dispatch.
Handled(p, s, events) ==
    /\ game_state' = s
    /\ msgs' = events
    /\ mutations' = mutations + 1
    /\ \E targets \in TargetOrders(connections) :
          tasks' = [tasks EXCEPT ![p] =
                       Entered("sending",
                               broadcast_loop(p, targets, events,
                                              mutations + 1))]
    /\ UNCHANGED <<host_id, connections, crashed, registry, queue>>

\* The handler panics inside the block: the task is gone, disconnect
\* handling included.
HandlerPanicked(p, s) ==
    /\ game_state' = s
    /\ msgs' = <<>>
    /\ mutations' = mutations + 1
    /\ crashed' = crashed \cup {p}
    /\ tasks' = [tasks EXCEPT ![p] = Task("panicked", <<>>)]
    /\ UNCHANGED <<host_id, connections, registry, queue>>

Receives(p) ==
    /\ tasks[p].at = "bound"
    /\ registry
    /\ mutations < MaxMutations

HandleStartHand(p) ==
    /\ Receives(p)
    /\ IF p # host_id
       THEN Handled(p, game_state, <<EvError("host_only")>>)
       ELSE IF Len(game_state.seated_players) = 0
       THEN HandlerPanicked(p, game_state)
       ELSE \E r \in {start_new_hand([game_state EXCEPT
                           !.seated_players = rotate_left(@)])} :
               IF r.panic THEN HandlerPanicked(p, r.s)
               ELSE Handled(p, r.s, r.msgs)
    /\ UNCHANGED <<sent, hands, start_total, in_hand, idle_actions>>

HandlePerformAction(p, action) ==
    /\ Receives(p)
    /\ \E o \in {perform_action(game_state, p, action,
                                [i \in 0..(NumPlayers - 1) |-> 1])} :
          IF o.panic THEN HandlerPanicked(p, o.s)
          ELSE IF ~ReachesShowdown(o) THEN Handled(p, o.s, o.msgs)
          ELSE \E d \in {perform_action(game_state, p, action, ranks) :
                            ranks \in Ranks} :
                  Handled(p, d.s, d.msgs)
    /\ UNCHANGED <<sent, hands, start_total, in_hand, idle_actions>>

\* A message of the authenticated branch for a room that is no longer in
\* the registry: an Error to the sender and nothing else.
HandleWithoutRoom(p) ==
    /\ tasks[p].at = "bound"
    /\ ~registry
    /\ Refusals(p) < MaxRefusals
    /\ tasks' = [tasks EXCEPT ![p] =
                    Task("sending", <<SendOf(p, EvError("no_room"), 0)>>)]
    /\ UNCHANGED <<game_state, host_id, connections, crashed, msgs, sent,
                   hands, start_total, in_hand, idle_actions, registry,
                   queue, mutations>>

\* JoinRoom on a connection without context: refused when the room is not
\* in the registry; otherwise the block binds the context and adds the
\* player and the connection, and PlayerJoined to the others and then
\* RoomJoined to the joiner are sent after it.
HandleJoinRoom(j) ==
    /\ tasks[j].at = "unbound"
    /\ IF ~registry
       THEN /\ Refusals(j) < MaxRefusals
            /\ tasks' = [tasks EXCEPT ![j] =
                            Task("refused",
                                 <<SendOf(j, EvError("no_room"), 0)>>)]
            /\ UNCHANGED <<game_state, connections, msgs, mutations>>
       ELSE /\ mutations < MaxMutations
            /\ mutations' = mutations + 1
            /\ \E r \in {join_room(game_state, j)} :
               \E targets \in TargetOrders(connections \cup {j}) :
                  /\ game_state' = r.s
                  /\ connections' = connections \cup {j}
                  /\ msgs' = <<r.join_broadcast_msg, r.join_msg>>
                  /\ tasks' = [tasks EXCEPT ![j] =
                                  Task("sending",
                                       broadcast(targets, r.join_broadcast_msg,
                                                 j, mutations + 1)
                                       \o <<SendOf(j, r.join_msg,
                                                   mutations + 1)>>)]
    /\ UNCHANGED <<host_id, crashed, sent, hands, start_total, in_hand,
                   idle_actions, registry, queue>>

\* handle_disconnect, up to the end of its block: the unwrap of the room
\* lookup panics when the room is gone; otherwise the connection leaves
\* the map, the player is Offline, the host role moves on, and the block
\* notes whether the map is now empty.
HandleDisconnect(p) ==
    /\ tasks[p].at = "bound"
    /\ IF ~registry
       THEN /\ crashed' = crashed \cup {p}
            /\ tasks' = [tasks EXCEPT ![p] = Task("panicked", <<>>)]
            /\ UNCHANGED <<game_state, host_id, connections, msgs, mutations>>
       ELSE /\ mutations < MaxMutations
            /\ mutations' = mutations + 1
            /\ LET left == connections \ {p}
                   s == IF p \in DOMAIN game_state.players
                        THEN SetState(game_state, p, "Offline")
                        ELSE game_state
                   update == IF p \in DOMAIN game_state.players
                             THEN <<EvPlayerUpdated(p, s.players[p])>>
                             ELSE <<>>
                   delete_room == left = {}
               IN /\ connections' = left
                  /\ game_state' = s
                  /\ \E new_host \in (IF p = host_id /\ left # {}
                                      THEN left ELSE {host_id}) :
                        /\ host_id' = new_host
                        /\ msgs' = update
                                   \o (IF p = host_id /\ left # {}
                                       THEN <<EvInfo(new_host)>> ELSE <<>>)
                  /\ \E targets \in TargetOrders(left) :
                        tasks' = [tasks EXCEPT ![p] =
                                     IF delete_room
                                     THEN Task("removing", <<>>)
                                     ELSE Entered("leaving",
                                              broadcast_loop(p, targets, msgs',
                                                             mutations + 1))]
            /\ UNCHANGED crashed
    /\ UNCHANGED <<sent, hands, start_total, in_hand, idle_actions, registry,
                   queue>>

\* state.rooms.remove(&room_id), after the block that found the map empty.
RemoveRoom(p) ==
    /\ tasks[p].at = "removing"
    /\ registry' = FALSE
    /\ tasks' = [tasks EXCEPT ![p] = Task("closed", <<>>)]
    /\ UNCHANGED <<game_state, host_id, connections, crashed, msgs, sent,
                   hands, start_total, in_hand, idle_actions, queue,
                   mutations>>

\* One sender.send(...).await of a task that is past its block; a send to
\* a channel whose connection is gone fails and is skipped.
SendNext(p) ==
    /\ tasks[p].pending # <<>>
    /\ LET h == Head(tasks[p].pending)
       IN queue' = [queue EXCEPT ![h.to] =
                       IF tasks[h.to].at \in {"closed", "panicked"} THEN @
                       ELSE Append(@, [ev |-> h.ev, seq |-> h.seq])]
    /\ tasks' = [tasks EXCEPT ![p] = Entered(@.at, Tail(@.pending))]
    /\ UNCHANGED <<game_state, host_id, connections, crashed, msgs, sent,
                   hands, start_total, in_hand, idle_actions, registry,
                   mutations>>

\* A room whose creator (player 1) and some of the others are connected,
\* some of them seated with chips; every other connection has no context
\* yet.
InitSession ==
    /\ \E present \in {S \in SUBSET PlayerIds : 1 \in S} :
       \E taken \in SUBSET present :
       \E stacks \in [taken -> {0, MaxStack}] :
          /\ game_state = [DefaultGameState EXCEPT
                             !.players = [p \in present |->
                                             IF p \in taken
                                             THEN Player(stacks[p], "Waiting")
                                             ELSE Player(0, "SittingOut")],
                             !.seated_players =
                                 SelectSeq([i \in 1..NumPlayers |-> i],
                                           LAMBDA p : p \in taken),
                             !.seat_ids = [p \in taken |-> p - 1]]
          /\ connections = present
          /\ tasks = [c \in ConnIds |->
                         Task(IF c \in present THEN "bound" ELSE "unbound",
                              <<>>)]
    /\ host_id = 1
    /\ crashed = {}
    /\ msgs = <<>>
    /\ sent = [c \in ConnIds |-> <<>>]
    /\ hands = 0
    /\ start_total = 0
    /\ in_hand = FALSE
    /\ idle_actions = 0
    /\ registry = TRUE
    /\ queue = [c \in ConnIds |-> <<>>]
    /\ mutations = 0

NextSession ==
    \/ \E p \in ConnIds : HandleStartHand(p)
    \/ \E p \in ConnIds, a \in Actions : HandlePerformAction(p, a)
    \/ \E p \in ConnIds : HandleWithoutRoom(p)
    \/ \E j \in ConnIds : HandleJoinRoom(j)
    \/ \E p \in ConnIds : HandleDisconnect(p)
    \/ \E p \in ConnIds : RemoveRoom(p)
    \/ \E p \in ConnIds : SendNext(p)

SpecSession == InitSession /\ [][NextSession]_vars

\* ------------------------------------------------ main.rs: GetMyHand
\* An answer that always carries the hole cards at index 0.
get_my_hand_of_button(s, player_id) ==
    IF s.phase = "PreFlop" /\ player_id \in DOMAIN s.player_indices
    THEN [only |-> <<EvPlayerHand(s.player_cards[0])>>, panic |-> FALSE]
    ELSE [only |-> <<>>, panic |-> FALSE]

\* The GetMyHand arm: in PreFlop, the cards at the sender's own index of the
\* hand, for the sender alone; an unwrap of an undealt card panics.
get_my_hand(s, player_id) ==
    IF s.phase = "PreFlop" /\ player_id \in DOMAIN s.player_indices
    THEN LET cards == s.player_cards[s.player_indices[player_id]]
         IN IF cards[1] = NoCard \/ cards[2] = NoCard
            THEN [only |-> <<>>, panic |-> TRUE]
            ELSE [only |-> <<EvPlayerHand(cards)>>, panic |-> FALSE]
    ELSE [only |-> <<>>, panic |-> FALSE]

GetMyHand(p) ==
    /\ p \in Live
    /\ \E r \in {get_my_hand(game_state, p)} :
          IF r.panic THEN Panicked(p, game_state)
          ELSE /\ msgs' = <<>>
               /\ sent' = dispatch(p, connections, <<>>, r.only)
               /\ UNCHANGED <<game_state, host_id, connections, crashed>>
               /\ UNCHANGED session
    /\ UNCHANGED <<hands, start_total, in_hand, idle_actions>>

NextPrivacy ==
    \/ \E p \in ConnIds : StartHand(p)
    \/ \E p \in ConnIds, a \in Actions : PerformAction(p, a)
    \/ \E j \in Joiners : JoinRoom(j)
    \/ \E p \in ConnIds : GetMyHand(p)

SpecPrivacy == Init /\ [][NextPrivacy]_vars

\* --------------------------------------- main.rs: the outbound channels
\* Every connection has one mpsc channel of ChannelCapacity messages: the
\* handlers send into it, and the connection's writer task takes the
\* messages out one by one and writes them to the socket.  A send into a
\* full channel does not complete until the writer has taken a message out.

\* RequestSeat, up to the end of the guarded block.
HandleRequestSeat(p, seat_id, stack) ==
    /\ tasks[p].at = "bound"
    /\ registry
    /\ mutations < MaxHandled
    /\ mutations' = mutations + 1
    /\ \E r \in {request_seat(game_state, p, seat_id, stack)} :
       \E targets \in TargetOrders(connections) :
          /\ game_state' = r.s
          /\ msgs' = r.msgs
          /\ tasks' = [tasks EXCEPT ![p] =
                          Entered("sending",
                                  broadcast_loop(p, targets, r.msgs,
                                                 mutations + 1)
                                  \o [k \in DOMAIN r.only |->
                                         SendOf(p, r.only[k],
                                                mutations + 1)])]
    /\ UNCHANGED <<host_id, connections, crashed, sent, hands, start_total,
                   in_hand, idle_actions, registry, queue>>

\* The send a task is at cannot complete: the channel is full.
SendWaits(p) ==
    /\ tasks[p].pending # <<>>
    /\ Len(queue[Head(tasks[p].pending).to]) >= ChannelCapacity

\* sender.send(...).await completes: the channel has room.
ChannelSend(p) ==
    /\ tasks[p].pending # <<>>
    /\ ~SendWaits(p)
    /\ LET h == Head(tasks[p].pending)
       IN queue' = [queue EXCEPT ![h.to] =
                       Append(@, [ev |-> h.ev, seq |-> h.seq])]
    /\ tasks' = [tasks EXCEPT ![p] = Entered(@.at, Tail(@.pending))]
    /\ UNCHANGED <<game_state, host_id, connections, crashed, msgs, sent,
                   hands, start_total, in_hand, idle_actions, registry,
                   mutations>>

\* The writer task of a connection: rx.recv() and the write to the socket,
\* which takes as long as the peer's transport takes.
WriterWrites(c) ==
    /\ queue[c] # <<>>
    /\ queue' = [queue EXCEPT ![c] = Tail(@)]
    /\ UNCHANGED <<game_state, host_id, connections, crashed, msgs, sent,
                   hands, start_total, in_hand, idle_actions, registry,
                   tasks, mutations>>

\* A room of two connected players, the host and a peer, nobody seated.
InitFanOut ==
    /\ game_state = [DefaultGameState EXCEPT
                        !.players = [p \in {1, 2} |->
                                        Player(0, "SittingOut")]]
    /\ host_id = 1
    /\ connections = {1, 2}
    /\ crashed = {}
    /\ msgs = <<>>
    /\ sent = [c \in ConnIds |-> <<>>]
    /\ hands = 0
    /\ start_total = 0
    /\ in_hand = FALSE
    /\ idle_actions = 0
    /\ registry = TRUE
    /\ tasks = [c \in ConnIds |->
                   Task(IF c \in {1, 2} THEN "bound" ELSE "unbound", <<>>)]
    /\ queue = [c \in ConnIds |-> <<>>]
    /\ mutations = 0

NextFanOut ==
    \/ HandleRequestSeat(1, 0, MaxStack)
    \/ \E p \in ConnIds : ChannelSend(p)
    \/ \E c \in ConnIds : WriterWrites(c)

SpecFanOut == InitFanOut /\ [][NextFanOut]_vars

\* ------------------------------------ main.rs: the connection's context
\* player_context of handle_socket: None until a CreateRoom or JoinRoom of
\* this connection succeeds.  The handlers are taken whole here; the room is
\* the one room of the model, and any other room id is in no registry.
RoomIds == {"room", "unknown"}

Unauthenticated(c) == tasks[c].at = "unbound"

HasContext(c) == tasks[c].at = "bound"

\* A refusal that binds the connection to the room all the same.
RefuseBinding(c, why) ==
    /\ sent' = [d \in ConnIds |-> IF d = c THEN <<EvError(why)>> ELSE <<>>]
    /\ tasks' = [tasks EXCEPT ![c] = Task("bound", <<>>)]
    /\ UNCHANGED <<game_state, host_id, connections, crashed, msgs, hands,
                   start_total, in_hand, idle_actions, registry, queue,
                   mutations>>

\* An Error on the sender's own channel and a return: nothing else happens.
Refuse(c, why) ==
    /\ sent' = [d \in ConnIds |-> IF d = c THEN <<EvError(why)>> ELSE <<>>]
    /\ UNCHANGED <<game_state, host_id, connections, crashed, msgs, hands,
                   start_total, in_hand, idle_actions, session>>

\* The room CreateRoom builds: the creator alone, SittingOut without chips
\* or seat, and host.
create_room(player_id) ==
    LET s == [DefaultGameState EXCEPT
                 !.players = [p \in {player_id} |-> Player(0, "SittingOut")]]
    IN [s |-> s,
        join_msg |-> EvRoomJoined(player_id, for_client(s, player_id),
                                  player_id)]

\* CreateRoom.  One room is created in all: the guard keeps a second
\* CreateRoom of a connection without context out.
ClientCreateRoom(c) ==
    /\ c \notin crashed
    /\ IF HasContext(c) THEN Refuse(c, "already_in_room")
       ELSE /\ Unauthenticated(c)
            /\ ~registry
            /\ DOMAIN game_state.players = {}
            /\ \E r \in {create_room(c)} :
                  /\ game_state' = r.s
                  /\ msgs' = <<r.join_msg>>
                  /\ sent' = [d \in ConnIds |->
                                 IF d = c THEN <<r.join_msg>> ELSE <<>>]
            /\ host_id' = c
            /\ connections' = {c}
            /\ registry' = TRUE
            /\ tasks' = [tasks EXCEPT ![c] = Task("bound", <<>>)]
            /\ UNCHANGED <<crashed, hands, start_total, in_hand,
                           idle_actions, queue, mutations>>

ClientJoinRoom(c, room_id) ==
    /\ c \notin crashed
    /\ IF HasContext(c) THEN Refuse(c, "already_in_room")
       ELSE /\ Unauthenticated(c)
            /\ IF ~(room_id = "room" /\ registry)
               THEN Refuse(c, "no_room")
               ELSE \E r \in {join_room(game_state, c)} :
                       /\ game_state' = r.s
                       /\ connections' = connections \cup {c}
                       /\ msgs' = <<r.join_broadcast_msg, r.join_msg>>
                       /\ sent' = [d \in ConnIds |->
                                     IF d = c THEN <<r.join_msg>>
                                     ELSE IF d \in connections
                                     THEN <<r.join_broadcast_msg>> ELSE <<>>]
                       /\ tasks' = [tasks EXCEPT ![c] = Task("bound", <<>>)]
                       /\ UNCHANGED <<host_id, crashed, hands, start_total,
                                      in_hand, idle_actions, registry, queue,
                                      mutations>>

\* Any other message on a connection without context.
ClientOtherMessage(c) ==
    /\ Unauthenticated(c)
    /\ Refuse(c, "login_first")

\* The socket closes: handle_disconnect when there is a context, and the
\* room is removed with its last connection.
ClientCloses(c) ==
    /\ c \notin crashed
    /\ tasks[c].at \in {"unbound", "bound"}
    /\ tasks' = [tasks EXCEPT ![c] = Task("closed", <<>>)]
    /\ IF Unauthenticated(c)
       THEN /\ sent' = [d \in ConnIds |-> <<>>]
            /\ UNCHANGED <<game_state, host_id, connections, msgs, registry>>
       ELSE LET left == connections \ {c}
                s == SetState(game_state, c, "Offline")
            IN /\ connections' = left
               /\ game_state' = s
               /\ registry' = (left # {})
               /\ \E new_host \in (IF c = host_id /\ left # {}
                                   THEN left ELSE {host_id}) :
                     /\ host_id' = new_host
                     /\ msgs' = <<EvPlayerUpdated(c, s.players[c])>>
                                \o (IF c = host_id /\ left # {}
                                    THEN <<EvInfo(new_host)>> ELSE <<>>)
               /\ sent' = dispatch(c, left, msgs', <<>>)
    /\ UNCHANGED <<crashed, hands, start_total, in_hand, idle_actions,
                   queue, mutations>>

\* Messages of the authenticated branch on a connection with a context: a
\* StartHand of a player who is not the host, and a request for seat 0.
ClientStartHand(c) == HasContext(c) /\ StartHandNotHost(c)

ClientRequestSeat(c) == HasContext(c) /\ RequestSeat(c, 0, MaxStack)

\* Every connection is open and without context; there is no room.
InitConnect ==
    /\ game_state = DefaultGameState
    /\ host_id = NoPlayer
    /\ connections = {}
    /\ crashed = {}
    /\ msgs = <<>>
    /\ sent = [c \in ConnIds |-> <<>>]
    /\ hands = 0
    /\ start_total = 0
    /\ in_hand = FALSE
    /\ idle_actions = 0
    /\ registry = FALSE
    /\ tasks = [c \in ConnIds |-> Task("unbound", <<>>)]
    /\ queue = [c \in ConnIds |-> <<>>]
    /\ mutations = 0

NextConnect ==
    \/ \E c \in ConnIds : ClientCreateRoom(c)
    \/ \E c \in ConnIds, room_id \in RoomIds : ClientJoinRoom(c, room_id)
    \/ \E c \in ConnIds : ClientOtherMessage(c)
    \/ \E c \in ConnIds : ClientStartHand(c)
    \/ \E c \in ConnIds : ClientRequestSeat(c)
    \/ \E c \in ConnIds : ClientCloses(c)

SpecConnect == InitConnect /\ [][NextConnect]_vars

\* ------------------------------------- handle_showdown on its own inputs
\* The states advance_to_next_phase hands to handle_showdown, as the tests
\* of logic.rs build them: every hand-player Playing, AllIn or Folded, at
\* least two of them not Folded, the Playing ones level at max_bet, an
\* AllIn one with an empty stack, the board dealt, phase already Showdown.
ShowdownEntries ==
    LET Idx == 0..(PotPlayers - 1)
        Max(f) == CHOOSE b \in {f[i] : i \in Idx} : \A j \in Idx : f[j] <= b
    IN {[DefaultGameState EXCEPT
            !.players = [p \in 1..PotPlayers |->
                            Player(IF st[p - 1] = "AllIn" THEN 0 ELSE 1,
                                   st[p - 1])],
            !.seated_players = [i \in 1..PotPlayers |-> i],
            !.hand_player_order = [i \in Idx |-> i + 1],
            !.player_indices = [p \in 1..PotPlayers |-> p - 1],
            !.phase = "Showdown",
            !.pot = SumOver(b, Idx),
            !.bets = b,
            !.community_cards = [i \in 0..(BoardSlots - 1) |->
                                    2 * PotPlayers + 1 + i],
            !.player_cards = [i \in Idx |-> <<2 * i + 1, 2 * i + 2>>],
            !.player_has_acted = Vec(PotPlayers, FALSE),
            !.max_bet = Max(b),
            !.last_raise_amount = big_blind] :
        b \in {f \in [Idx -> 0..MaxBet] :
                  \E i \in Idx : f[i] > 0},
        st \in {f \in [Idx -> {"Playing", "AllIn", "Folded"}] :
                   Cardinality({i \in Idx : f[i] # "Folded"}) >= 2}}

InitPots ==
    /\ game_state \in {s \in ShowdownEntries :
                          \A i \in DOMAIN s.bets :
                              LET state == s.players[s.hand_player_order[i]].state
                              IN /\ state = "Playing" => s.bets[i] = s.max_bet
                                 /\ state = "AllIn" => s.bets[i] > 0}
    /\ host_id = 1
    /\ connections = PlayerIds
    /\ crashed = {}
    /\ msgs = <<>>
    /\ sent = [c \in ConnIds |-> <<>>]
    /\ hands = 0
    /\ start_total = 0
    /\ in_hand = FALSE
    /\ idle_actions = 0
    /\ SessionIdle

ShowdownStep ==
    /\ game_state.pot > 0
    /\ \E ranks \in [0..(PotPlayers - 1) -> 1..MaxRank] :
          LET r == handle_showdown(game_state, ranks)
          IN /\ game_state' = r.s
             /\ msgs' = r.msgs
    /\ UNCHANGED <<host_id, connections, crashed, sent, hands, start_total,
                   in_hand, idle_actions>>
    /\ UNCHANGED session

NextPots == ShowdownStep

SpecPots == InitPots /\ [][NextPots]_vars


\* ------------------------------ advance_to_next_phase on its own inputs
\* The states handle_player_action hands to advance_to_next_phase, as the
\* tests of logic.rs build them: a betting round that is over
\* (check_betting_round_over), at least two hand-players not Folded, an
\* AllIn one with an empty stack, the board dealt up to the phase, the last
\* actor at cur_player_idx.
StreetEntriesOf(n) ==
    LET Idx == 0..(n - 1)
        Max(f) == CHOOSE b \in {f[i] : i \in Idx} : \A j \in Idx : f[j] <= b
        Board(phase) == CASE phase = "PreFlop" -> 0
                          [] phase = "Flop" -> 3
                          [] phase = "Turn" -> 4
                          [] OTHER -> 5
    IN {[DefaultGameState EXCEPT
            !.players = [p \in 1..n |->
                            Player(IF st[p - 1] = "AllIn" THEN 0 ELSE 1,
                                   st[p - 1])],
            !.seated_players = [i \in 1..n |-> i],
            !.hand_player_order = [i \in Idx |-> i + 1],
            !.player_indices = [p \in 1..n |-> p - 1],
            !.phase = phase,
            !.pot = SumOver(b, Idx),
            !.bets = b,
            !.deck = [k \in 1..(BoardSlots - Board(phase)) |-> k],
            !.community_cards =
                [i \in 0..(BoardSlots - 1) |->
                    IF i < Board(phase) THEN BoardSlots - i ELSE NoCard],
            !.player_cards = [i \in Idx |->
                                 <<BoardSlots + 2 * i + 1,
                                   BoardSlots + 2 * i + 2>>],
            !.player_has_acted = Vec(n, TRUE),
            !.cur_player_idx = cur,
            !.max_bet = Max(b),
            !.last_raise_amount = big_blind] :
        phase \in BettingPhases,
        cur \in Idx,
        b \in {f \in [Idx -> 1..MaxStreetBet] : TRUE},
        st \in {f \in [Idx -> {"Playing", "AllIn", "Folded", "Offline"}] :
                   Cardinality({i \in Idx : f[i] # "Folded"}) >= 2}}

StreetEntries == UNION {StreetEntriesOf(n) : n \in 2..PotPlayers}

InitStreets ==
    /\ game_state \in {s \in StreetEntries : check_betting_round_over(s)}
    /\ host_id = 1
    /\ connections = PlayerIds
    /\ crashed = {}
    /\ msgs = <<>>
    /\ sent = [c \in ConnIds |-> <<>>]
    /\ hands = 0
    /\ start_total = 0
    /\ in_hand = FALSE
    /\ idle_actions = 0
    /\ SessionIdle

AdvanceStep ==
    /\ game_state.phase \in BettingPhases
    /\ check_betting_round_over(game_state)
    /\ \E ranks \in [0..(PotPlayers - 1) -> 1..MaxRank] :
       \E r \in {advance_to_next_phase(game_state, ranks)} :
          /\ ~r.panic
          /\ game_state' = r.s
          /\ msgs' = r.msgs
    /\ UNCHANGED <<host_id, connections, crashed, sent, hands, start_total,
                   in_hand, idle_actions>>
    /\ UNCHANGED session

NextStreets == AdvanceStep

SpecStreets == InitStreets /\ [][NextStreets]_vars


\* ================================================================ claims
EventsOf(type) == {k \in DOMAIN msgs : msgs[k].type = type}

SumWinnings(results) ==
    SumOver([r \in results |-> r.winnings], results)

\* The pot a Showdown event at position k distributed: the pot reported by
\* the last PlayerActed before it, less what a BetReturned in between gave
\* back.
PotBefore(k) ==
    LET acted == {j \in EventsOf("PlayerActed") : j < k}
        last == CHOOSE j \in acted : \A i \in acted : i <= j
        returned == {j \in EventsOf("BetReturned") : last < j /\ j < k}
    IN msgs[last].new_pot
       - SumOver([j \in returned |-> msgs[j].amount], returned)

\* C1: once start_new_hand has dealt a hand, after any sequence of actions,
\* ticks and disconnects the stacks plus the pot equal the chips the players
\* had when the hand started, and the winnings of a Showdown event sum to
\* the pot left after the uncalled-bet return.
C1_ChipConservation ==
    in_hand =>
        /\ TotalChips(game_state) = start_total
        /\ \A k \in EventsOf("Showdown") :
              SumWinnings(msgs[k].results) = PotBefore(k)

\* A hand that reached its showdown through an auto-runout, returned an
\* uncalled bet and paid the pot to two contenders.
C1_Witness ==
    /\ in_hand
    /\ game_state.phase = "Showdown"
    /\ EventsOf("BetReturned") # {}
    /\ \E k \in EventsOf("Showdown") :
          /\ Cardinality(msgs[k].results) = 2
          /\ \A r \in msgs[k].results : r.winnings > 0

\* The reference side-pot algorithm over total commitments total_bet, the
\* set eligible of players who did not fold and their hand ranks: what
\* player i is awarded.
RefLevels(total_bet) == {total_bet[j] : j \in DOMAIN total_bet} \ {0}

RefPrev(total_bet, level) ==
    LET below == {l \in RefLevels(total_bet) : l < level}
    IN IF below = {} THEN 0
       ELSE CHOOSE l \in below : \A m \in below : m <= l

RefPot(total_bet, level) ==
    LET prev == RefPrev(total_bet, level)
        over(j) == IF total_bet[j] > prev THEN total_bet[j] - prev ELSE 0
    IN SumOver([j \in DOMAIN total_bet |-> Min(level - prev, over(j))],
               DOMAIN total_bet)

RefWinners(total_bet, eligible, rank, level) ==
    LET contenders == {j \in eligible : total_bet[j] >= level}
    IN {j \in contenders : \A k \in contenders : rank[k] <= rank[j]}

RefAward(total_bet, eligible, rank, i) ==
    LET won(level) ==
            LET w == RefWinners(total_bet, eligible, rank, level)
                pot == RefPot(total_bet, level)
            IN IF i \notin w THEN 0
               ELSE (pot \div Cardinality(w))
                    + (IF \A k \in w : i <= k THEN pot % Cardinality(w) ELSE 0)
    IN SumOver([l \in RefLevels(total_bet) |-> won(l)], RefLevels(total_bet))

\* What the events of a step say: the chips a BetReturned gave player pid,
\* and the entry of a Showdown event for pid.
ReturnedTo(events, pid) ==
    LET K == {k \in DOMAIN events : /\ events[k].type = "BetReturned"
                                    /\ events[k].player_id = pid}
    IN SumOver([k \in K |-> events[k].amount], K)

ShowdownEvents(events) == {k \in DOMAIN events : events[k].type = "Showdown"}

ResultOf(event, pid) == CHOOSE r \in event.results : r.player_id = pid

\* C2: handle_showdown pays what the reference algorithm awards.  With the
\* totals left by the uncalled-bet return as total_bet, every hand-player's
\* stack grows by the returned chips plus the reference award, the one
\* Showdown event lists the non-folded players with that award as winnings,
\* the pot ends at 0, and a player all-in for T is awarded at most the sum
\* over the hand-players of min(T, total_bet).
C2_Step ==
    LET s == game_state
        t == game_state'
        Idx == DOMAIN s.hand_player_order
        eligible == {i \in Idx : s.players[s.hand_player_order[i]].state # "Folded"}
        shown == ShowdownEvents(msgs')
        event == msgs'[CHOOSE k \in shown : TRUE]
        rank == [i \in Idx |->
                    IF i \in eligible
                    THEN ResultOf(event, s.hand_player_order[i]).hand_rank
                    ELSE NoRank]
        award(i) == RefAward(t.bets, eligible, rank, i)
    IN /\ Cardinality(shown) = 1
       /\ {r.player_id : r \in event.results}
              = {s.hand_player_order[i] : i \in eligible}
       /\ t.pot = 0
       /\ \A i \in Idx :
             LET pid == s.hand_player_order[i]
             IN /\ t.players[pid].stack
                       = s.players[pid].stack + ReturnedTo(msgs', pid) + award(i)
                /\ i \in eligible =>
                       ResultOf(event, pid).winnings = award(i)
                /\ s.players[pid].state = "AllIn" =>
                       award(i) <= SumOver([j \in Idx |->
                                              Min(t.bets[i], t.bets[j])], Idx)

C2_SidePots == [][C2_Step]_vars

\* A showdown over two levels with a folded contributor, in which a tie
\* left an odd chip to the first winner.
C2_Witness ==
    /\ game_state.pot = 0
    /\ Cardinality(RefLevels(game_state.bets)) >= 2
    /\ \E i \in DOMAIN game_state.bets :
          /\ game_state.players[game_state.hand_player_order[i]].state = "Folded"
          /\ game_state.bets[i] > 0
    /\ \E k \in EventsOf("Showdown") :
          \E r1, r2 \in msgs[k].results :
              /\ r1.hand_rank = r2.hand_rank
              /\ r1.winnings > r2.winnings
              /\ r2.winnings > 0

\* What hand-player i had committed, and had left, when the step reached
\* its showdown: the figures of the last PlayerActed of the step about that
\* player, or those the step started from.
ActedBy(events, pid) ==
    {k \in DOMAIN events : /\ events[k].type = "PlayerActed"
                           /\ events[k].player_id = pid}

LastOf(K) == CHOOSE k \in K : \A j \in K : j <= k

EntryTotal(s, events, i) ==
    LET K == ActedBy(events, s.hand_player_order[i])
    IN IF K = {} THEN s.bets[i] ELSE events[LastOf(K)].total_bet_this_round

EntryStack(s, events, i) ==
    LET K == ActedBy(events, s.hand_player_order[i])
    IN IF K = {} THEN s.players[s.hand_player_order[i]].stack
       ELSE events[LastOf(K)].new_stack

\* A step that takes a betting round to a showdown between at least two
\* players who have not folded.
EntersShowdown ==
    /\ game_state.phase \in BettingPhases
    /\ game_state'.phase = "Showdown"
    /\ Cardinality(NonFolded(game_state')) >= 2

\* C3: when a step enters the showdown and one contender's total exceeds
\* every other contender's, exactly one BetReturned is emitted, before the
\* Showdown event, for that player and for that total minus the highest
\* total of the others; it is added to the stack and taken from the bets
\* entry.  When no contender is strictly highest no BetReturned is emitted.
C3_Step ==
    EntersShowdown =>
        LET s == game_state
            t == game_state'
            in_hand_idx == NonFolded(t)
            total == [i \in DOMAIN s.bets |-> EntryTotal(s, msgs', i)]
            top == {i \in in_hand_idx :
                       \A j \in in_hand_idx \ {i} : total[i] > total[j]}
            returned == {k \in DOMAIN msgs' : msgs'[k].type = "BetReturned"}
        IN IF top = {}
           THEN /\ returned = {}
                /\ \A i \in DOMAIN s.bets : t.bets[i] = total[i]
           ELSE \E i \in top :
                   LET others == {total[j] : j \in in_hand_idx \ {i}}
                       highest == CHOOSE b \in others : \A c \in others : c <= b
                       amount == total[i] - highest
                       pid == s.hand_player_order[i]
                   IN /\ Cardinality(returned) = 1
                      /\ \A k \in returned :
                            /\ msgs'[k].player_id = pid
                            /\ msgs'[k].amount = amount
                            /\ msgs'[k].new_stack
                                   = EntryStack(s, msgs', i) + amount
                            /\ \A j \in ShowdownEvents(msgs') : k < j
                      /\ t.bets[i] = total[i] - amount
                      /\ \A k \in ShowdownEvents(msgs') :
                            /\ t.players[pid].stack
                                   = EntryStack(s, msgs', i) + amount
                                     + ResultOf(msgs'[k], pid).winnings
                            /\ SumWinnings(msgs'[k].results)
                                   = SumOver(total, DOMAIN total) - amount

C3_UncalledBetReturn == [][C3_Step]_vars

\* A showdown entered by a call for less: the caller is all-in below the
\* bet he faced and the bettor got the difference back.
C3_Witness ==
    /\ game_state.phase = "Showdown"
    /\ \E k \in EventsOf("BetReturned") :
          /\ msgs[k].amount > 0
          /\ \E j \in EventsOf("Showdown") : k < j
          /\ \E a \in EventsOf("PlayerActed") :
                /\ a < k
                /\ msgs[a].action.kind = "Call"
                /\ msgs[a].new_stack = 0
                /\ msgs[a].player_id # msgs[k].player_id

\* C4: the view for_client gives recipient c has an empty deck and c's own
\* hole cards; the hole cards of another hand-player p are the dealt ones
\* when the phase is Showdown and p has not folded, and unset otherwise.
\* A player still connected whose state is not Folded has not folded in
\* this hand; nothing is asked about a player who disconnected.
C4_ViewProjection ==
    \A c \in PlayerIds :
        LET s == game_state
            view == for_client(s, c)
        IN /\ view.deck = <<>>
           /\ \A i \in DOMAIN s.hand_player_order \cap DOMAIN s.player_cards :
                 LET p == s.hand_player_order[i]
                 IN IF p = c
                    THEN view.player_cards[i] = s.player_cards[i]
                    ELSE IF s.phase = "Showdown" /\ s.players[p].state = "Folded"
                    THEN view.player_cards[i] = <<NoCard, NoCard>>
                    ELSE IF s.phase = "Showdown" /\ p \in connections
                    THEN view.player_cards[i] = s.player_cards[i]
                    ELSE s.phase # "Showdown" =>
                             view.player_cards[i] = <<NoCard, NoCard>>

\* The engine's answer to an action of the current actor in the state the
\* room is in.  Which cards were dealt bears on the winnings only.
AnyRanks == [i \in 0..(NumPlayers - 1) |-> 1]

Actor == current_player_id(game_state)

Answer(action) == handle_player_action(game_state, Actor, action, AnyRanks)

Accepted(r) ==
    /\ ~r.panic
    /\ r.msgs # <<>>
    /\ r.msgs[1].type = "PlayerActed"

Rejected(r) ==
    /\ ~r.panic
    /\ r.msgs # <<>>
    /\ r.msgs[1].type = "Error"

InBettingRound ==
    /\ game_state.phase \in BettingPhases
    /\ Actor # NoPlayer
    /\ Actor \in DOMAIN game_state.player_indices

\* The state once the effects of an accepted action are applied, before the
\* engine decides where the hand goes next.
AfterEffects(action) ==
    LET idx == game_state.player_indices[Actor]
    IN [apply_action(game_state, Actor, idx, action).s
           EXCEPT !.player_has_acted[idx] = TRUE]

MustAct(s) ==
    {i \in DOMAIN s.hand_player_order :
        s.players[s.hand_player_order[i]].state \notin {"Folded", "AllIn"}}

RoundComplete(s) ==
    \A i \in MustAct(s) : s.player_has_acted[i] /\ s.bets[i] = s.max_bet

BigBlindIdx(s) == IF VLen(s.hand_player_order) = 2 THEN 1
                  ELSE 2 % VLen(s.hand_player_order)

\* C5: an accepted action in a betting round that leaves at least two
\* players not folded advances the phase exactly when every hand-player
\* neither Folded nor AllIn has acted and is level with max_bet; otherwise
\* the phase stays and another player becomes the current actor.  Preflop a
\* call that leaves the big blind still to act does not deal the flop.
C5_RoundCompletion ==
    \A action \in Actions :
        LET r == Answer(action)
        IN (/\ InBettingRound
            /\ Accepted(r)
            /\ Cardinality(NonFolded(r.s)) >= 2) =>
           LET m == AfterEffects(action)
               bb == BigBlindIdx(m)
           IN /\ IF RoundComplete(m)
                 THEN r.s.phase # game_state.phase
                 ELSE /\ r.s.phase = game_state.phase
                      /\ current_player_id(r.s) # Actor
              /\ (/\ game_state.phase = "PreFlop"
                  /\ action.kind = "Call"
                  /\ bb \in MustAct(m)
                  /\ ~m.player_has_acted[bb]) => r.s.phase = "PreFlop"

\* The hand-players other than the actor who are neither Folded nor AllIn
\* once the action is applied.
OthersToAct(m) == MustAct(m) \ {game_state.player_indices[Actor]}

\* The first of a set of indices met going round from index i + 1.
NextFrom(s, i, K) ==
    LET n == VLen(s.hand_player_order)
        steps == {k \in 1..n : (i + k) % n \in K}
    IN (i + CHOOSE k \in steps : \A j \in steps : k <= j) % n

\* C6: an accepted BetOrRaise that lifts max_bet by at least
\* last_raise_amount leaves player_has_acted false for every other
\* hand-player neither Folded nor AllIn; the round does not complete in
\* that step and the turn goes to the first of them in hand order.  While
\* such a player has not acted, no accepted action of another player
\* completes the round.
C6_FullRaiseReopens ==
    \A action \in Actions :
        LET r == Answer(action)
        IN (/\ InBettingRound
            /\ Accepted(r)
            /\ Cardinality(NonFolded(r.s)) >= 2) =>
           LET m == AfterEffects(action)
               idx == game_state.player_indices[Actor]
               waiting == {i \in OthersToAct(m) : ~m.player_has_acted[i]}
           IN /\ (/\ action.kind = "BetOrRaise"
                  /\ m.max_bet - game_state.max_bet
                         >= game_state.last_raise_amount) =>
                     /\ waiting = OthersToAct(m)
                     /\ waiting # {} =>
                            r.s.cur_player_idx = NextFrom(m, idx, waiting)
              /\ waiting # {} => r.s.phase = game_state.phase

\* C7: an accepted all-in BetOrRaise that lifts max_bet by less than
\* last_raise_amount leaves player_has_acted true for every other player
\* who had acted and was level with the previous max_bet, and a BetOrRaise
\* by such a player, when the turn comes to him, is rejected.
C7_ShortAllInKeepsActionClosed ==
    \A action \in Actions :
        LET r == Answer(action)
        IN (/\ InBettingRound
            /\ Accepted(r)
            /\ action.kind = "BetOrRaise"
            /\ action.amount = game_state.players[Actor].stack
            /\ AfterEffects(action).max_bet > game_state.max_bet
            /\ AfterEffects(action).max_bet - game_state.max_bet
                   < game_state.last_raise_amount) =>
           LET m == AfterEffects(action)
               matched == {i \in OthersToAct(m) :
                              /\ game_state.player_has_acted[i]
                              /\ game_state.bets[i] = game_state.max_bet}
           IN /\ \A i \in matched : m.player_has_acted[i]
              /\ (/\ r.s.phase = game_state.phase
                  /\ r.s.cur_player_idx \in matched) =>
                     \A d \in 1..MaxDelta :
                         Rejected(handle_player_action(
                             r.s, current_player_id(r.s), BetOrRaise(d),
                             AnyRanks))

\* A state in which the engine lets the current actor act: it has no phase
\* check, so this is any state whose cur_player_idx designates a player of
\* the running hand_player_order.
HasActor ==
    /\ Actor # NoPlayer
    /\ Actor \in DOMAIN game_state.player_indices
    /\ game_state.player_indices[Actor] \in DOMAIN game_state.bets

\* C8: BetOrRaise(delta) by the current actor is accepted exactly when
\* 0 < delta <= stack and, opening (max_bet = bets[idx]), delta >= big_blind
\* or delta = stack, or, raising, bets[idx] + delta > max_bet and the
\* increment over max_bet is at least last_raise_amount or delta = stack;
\* Check is accepted exactly when nothing is owed; Call is accepted and
\* commits min(max_bet - bets[idx], stack).  What is not accepted is
\* answered with an Error.
C8_ActionAcceptance ==
    HasActor =>
        LET s == game_state
            idx == s.player_indices[Actor]
            stack == s.players[Actor].stack
            owed == s.max_bet - s.bets[idx]
            Legal(delta) ==
                /\ 0 < delta
                /\ delta <= stack
                /\ IF s.max_bet = s.bets[idx]
                   THEN delta >= big_blind \/ delta = stack
                   ELSE /\ s.bets[idx] + delta > s.max_bet
                        /\ \/ s.bets[idx] + delta - s.max_bet
                                  >= s.last_raise_amount
                           \/ delta = stack
            Committed(r) == r.msgs[1].total_bet_this_round - s.bets[idx]
        IN /\ \A delta \in 0..MaxDelta :
                 LET r == Answer(BetOrRaise(delta))
                 IN /\ Accepted(r) <=> Legal(delta)
                    /\ Accepted(r) \/ Rejected(r)
                    /\ Accepted(r) =>
                           /\ Committed(r) = delta
                           /\ r.msgs[1].new_stack = stack - delta
                           /\ r.msgs[1].new_pot = s.pot + delta
           /\ Accepted(Answer(Check)) <=> owed = 0
           /\ Accepted(Answer(Check)) \/ Rejected(Answer(Check))
           /\ Accepted(Answer(Check)) => Committed(Answer(Check)) = 0
           /\ Accepted(Answer(Call))
           /\ Committed(Answer(Call)) = Min(owed, stack)
           /\ Answer(Call).msgs[1].new_stack = stack - Min(owed, stack)
           /\ Answer(Call).msgs[1].new_pot = s.pot + Min(owed, stack)

\* The actor has matched a bet and faces an all-in raise of less than the
\* minimum: a raise below the minimum that would leave him chips is
\* refused, the all-in raise and the call are open to him.
C8_Witness ==
    /\ HasActor
    /\ game_state.phase \in BettingPhases
    /\ game_state.max_bet > game_state.bets[game_state.player_indices[Actor]]
    /\ \E d1, d2 \in 1..MaxDelta :
          /\ d1 < d2
          /\ Rejected(Answer(BetOrRaise(d1)))
          /\ Answer(BetOrRaise(d1)).msgs[1].message = "raise_below_minimum"
          /\ Accepted(Answer(BetOrRaise(d2)))
    /\ Rejected(Answer(Check))

\* C9: an action the engine rejects, whoever sends it, is answered with
\* exactly one Error and leaves the GameState as it was; of what the handler
\* then enqueues, the Error goes to the sender's connection and to no
\* other.
C9_RejectionIsInert ==
    \A p \in Live, action \in Actions :
        LET r == handle_player_action(game_state, p, action, AnyRanks)
            o == perform_action(game_state, p, action, AnyRanks)
            queued == dispatch(p, connections, o.msgs, <<>>)
            IsError(m) == m.type = "Error"
        IN Rejected(r) =>
              /\ Len(r.msgs) = 1
              /\ r.s = game_state
              /\ ~o.panic =>
                    /\ SelectSeq(queued[p], IsError) = r.msgs
                    /\ \A c \in PlayerIds \ {p} :
                          SelectSeq(queued[c], IsError) = <<>>

\* The last handler refused a raise below the minimum: one Error is queued
\* for one connection and nothing for the others.
C9_Witness ==
    /\ game_state.phase \in BettingPhases
    /\ msgs = <<EvError("raise_below_minimum")>>
    /\ \E p \in connections :
          /\ sent[p] = msgs
          /\ \A c \in connections \ {p} : sent[c] = <<>>
    /\ \E p \in Live \ {Actor} :
          Rejected(handle_player_action(game_state, p, Fold, AnyRanks))

\* C10 as stated: when the PerformAction of the current actor is accepted
\* and leaves the hand in a betting round, the same PerformAction sent again
\* by the same player is answered with one Error and changes nothing.
C10_ReplayRejected_AsStated ==
    \A action \in Actions :
        LET first == perform_action(game_state, Actor, action, AnyRanks)
            again == perform_action(first.s, Actor, action, AnyRanks)
        IN (/\ InBettingRound
            /\ Actor \in Live
            /\ ~first.panic
            /\ Accepted(first)
            /\ first.s.phase \in BettingPhases) =>
              /\ ~again.panic
              /\ Rejected(again)
              /\ Len(again.msgs) = 1
              /\ again.s = first.s

\* C10: when the PerformAction of the current actor is accepted and leaves
\* the hand in a betting round whose current actor is another player, the
\* same PerformAction sent again by the same player is answered with one
\* Error, which goes to that player alone, and changes nothing.  The sender
\* is the current actor again when his action closed the round and he opens
\* the next one, as the heads-up big blind who checks preflop does.
C10_ReplayRejected ==
    \A action \in Actions :
        LET first == perform_action(game_state, Actor, action, AnyRanks)
            again == perform_action(first.s, Actor, action, AnyRanks)
            queued == dispatch(Actor, connections, again.msgs, <<>>)
        IN (/\ InBettingRound
            /\ Actor \in Live
            /\ ~first.panic
            /\ Accepted(first)
            /\ first.s.phase \in BettingPhases
            /\ current_player_id(first.s) # Actor) =>
              /\ ~again.panic
              /\ Rejected(again)
              /\ Len(again.msgs) = 1
              /\ again.s = first.s
              /\ queued[Actor] = again.msgs
              /\ \A c \in PlayerIds \ {Actor} : queued[c] = <<>>

\* The last handler accepted a player's action and passed the turn to his
\* opponent within a betting round; the same action from him is now refused.
C10_Witness ==
    /\ game_state.phase \in BettingPhases
    /\ msgs # <<>>
    /\ msgs[1].type = "PlayerActed"
    /\ msgs[1].player_id \in Live \ {Actor}
    /\ Actor # NoPlayer
    /\ LET again == perform_action(game_state, msgs[1].player_id,
                                   Action(msgs[1].action.kind,
                                          msgs[1].action.amount), AnyRanks)
       IN /\ Rejected(again)
          /\ again.s = game_state

\* The fold-out of an accepted action: the one hand-player left not folded
\* takes the whole pot in the same step, the board stays as it is, and the
\* events are the PlayerActed and one Showdown with that player's result.
FoldOut(action) ==
    LET r == Answer(action)
        m == AfterEffects(action)
        w == m.hand_player_order[CHOOSE i \in NonFolded(m) : TRUE]
        showdowns == SelectSeq(r.msgs, LAMBDA e : e.type = "Showdown")
        dealt == SelectSeq(r.msgs, LAMBDA e : e.type = "CommunityCardsDealt")
    IN /\ r.s.phase = "Showdown"
       /\ r.s.pot = 0
       /\ r.s.players[w].stack = m.players[w].stack + m.pot
       /\ \A p \in DOMAIN m.players \ {w} :
             r.s.players[p].stack = m.players[p].stack
       /\ r.s.community_cards = game_state.community_cards
       /\ dealt = <<>>
       /\ Len(showdowns) = 1
       /\ Cardinality(showdowns[1].results) = 1
       /\ \A res \in showdowns[1].results :
             res.player_id = w /\ res.winnings = m.pot

LeavesOne(action) ==
    /\ HasActor
    /\ Accepted(Answer(action))
    /\ Cardinality(NonFolded(AfterEffects(action))) = 1

\* C11: whenever an accepted action leaves exactly one hand-player not
\* folded, the same step sets phase = Showdown, adds the whole pot to that
\* player's stack, leaves pot = 0, deals no community card and emits exactly
\* one Showdown event whose single result carries the whole pot.
C11_FoldOutShortCircuit ==
    \A action \in Actions : LeavesOne(action) => FoldOut(action)

\* The same statement for the actions taken while a betting round is open.
FoldOutInBettingRound ==
    \A action \in Actions :
        (InBettingRound /\ LeavesOne(action)) => FoldOut(action)

\* Everyone folded to the big blind before the flop: the hand ended in
\* Showdown with no community card dealt and the big blind alone not folded.
Walkover ==
    /\ in_hand
    /\ game_state.phase = "Showdown"
    /\ \A k \in DOMAIN game_state.community_cards :
          game_state.community_cards[k] = NoCard
    /\ NonFolded(game_state) = {BigBlindIdx(game_state)}

WalkoverWinner == game_state.hand_player_order[BigBlindIdx(game_state)]

\* The Showdown results on the wire carry neither cards nor a hand rank.
ResultsHideCards ==
    \A c \in ConnIds : \A k \in DOMAIN sent[c] :
        sent[c][k].type = "Showdown" =>
            \A res \in sent[c][k].results :
                res.cards = <<NoCard, NoCard>> /\ res.hand_rank = NoRank

\* No projected game state delivered to another player holds the winner's
\* hole cards.
SnapshotsHideWinner ==
    \A c \in ConnIds \ {WalkoverWinner} : \A k \in DOMAIN sent[c] :
        sent[c][k].type = "RoomJoined" =>
            sent[c][k].game_state.player_cards[BigBlindIdx(game_state)]
                = <<NoCard, NoCard>>

\* C12: after a preflop walkover the winner's hole cards reach no other
\* player: the Showdown result carries no cards and no hand rank, and no
\* projected game state delivered to another player, such as the RoomJoined
\* snapshot of a player who joins while the phase is still Showdown, holds
\* the winner's hole cards.
C12_WalkoverSecrecy == Walkover => (ResultsHideCards /\ SnapshotsHideWinner)

WalkoverResultsHideCards == Walkover => ResultsHideCards

\* What start_new_hand answers to the host's StartHand in the present state.
StartAnswer ==
    start_new_hand([game_state EXCEPT !.seated_players = rotate_left(@)])

\* The blinds as the rules post them among n hand-players, from the stacks
\* the players held before the hand.
BlindsPosted(r, n) ==
    LET sb_idx == IF n = 2 THEN 0 ELSE 1
        bb_idx == IF n = 2 THEN 1 ELSE 2
        first == IF n = 2 THEN 0 ELSE 3 % n
        order == r.s.hand_player_order
        before(i) == game_state.players[order[i]].stack
        owed(i) == IF i = sb_idx THEN Min(small_blind, before(i))
                   ELSE IF i = bb_idx THEN Min(big_blind, before(i))
                   ELSE 0
    IN /\ ~r.panic
       /\ r.s.phase = "PreFlop"
       /\ r.s.max_bet = big_blind
       /\ r.s.cur_player_idx = first
       /\ r.s.pot = owed(sb_idx) + owed(bb_idx)
       /\ \A i \in DOMAIN order :
             /\ r.s.bets[i] = owed(i)
             /\ r.s.players[order[i]].stack = before(i) - owed(i)
             /\ r.s.players[order[i]].state =
                   IF i \in {sb_idx, bb_idx} /\ before(i) = owed(i)
                   THEN "AllIn" ELSE "Playing"

HandPlayers(r) == VLen(r.s.hand_player_order)

CanStart == Len(game_state.seated_players) > 0

\* C13: a hand started with n >= 2 hand-players posts the blinds: heads-up
\* index 0 posts the small blind and acts first and index 1 posts the big
\* blind; with three or more, index 1 posts the small blind, index 2 the big
\* blind and index 3 mod n acts first; each poster commits min(blind, stack)
\* from stack to pot and bets, is AllIn when left with nothing, and the hand
\* stands at PreFlop with max_bet = big_blind.
C13_BlindPosting ==
    (CanStart /\ HandPlayers(StartAnswer) >= 2)
        => BlindsPosted(StartAnswer, HandPlayers(StartAnswer))

BlindPostingHeadsUp ==
    (CanStart /\ HandPlayers(StartAnswer) = 2) => BlindsPosted(StartAnswer, 2)

\* The seated players start_new_hand would take into a hand: neither
\* SittingOut nor Offline, and with chips.
EligibleSeated ==
    {k \in DOMAIN game_state.seated_players :
        LET p == game_state.players[game_state.seated_players[k]]
        IN p.state \notin {"SittingOut", "Offline"} /\ p.stack > 0}

\* A step of the host's StartHand: the only handler that counts a hand.
StartHandStep == hands' = hands + 1

NothingStarted ==
    /\ crashed' = crashed
    /\ game_state'.phase = "WaitingForPlayers"
    /\ Stacks(game_state') = Stacks(game_state)
    /\ game_state'.pot = game_state.pot
    /\ msgs' = <<>>
    /\ \A c \in ConnIds : sent'[c] = <<>>

C14_Step ==
    (StartHandStep /\ Cardinality(EligibleSeated) < 2) => NothingStarted

\* C14: the host's StartHand with fewer than two eligible seated players,
\* nobody seated included, ends with phase = WaitingForPlayers, moves no
\* chips and emits no events.
C14_TooFewToStart == [][C14_Step]_vars

TooFewOfSomeSeated ==
    [][(StartHandStep /\ Cardinality(EligibleSeated) < 2
        /\ Len(game_state.seated_players) > 0) => NothingStarted]_vars

\* A step that opens a betting round on the Flop, the Turn or the River.
RoundOpens ==
    /\ game_state'.phase \in {"Flop", "Turn", "River"}
    /\ game_state'.phase # game_state.phase

\* The first hand-player in the order 1, 2, ..., n-1, 0 who is neither
\* Folded nor AllIn.
FirstAfterButton(s) == NextFrom(s, 0, MustAct(s))

C15_Step ==
    RoundOpens =>
        /\ MustAct(game_state') # {}
        /\ game_state'.cur_player_idx = FirstAfterButton(game_state')
        /\ (0 \in MustAct(game_state') /\ MustAct(game_state') # {0})
              => game_state'.cur_player_idx # 0
        /\ VLen(game_state'.hand_player_order) = 2
              => game_state'.cur_player_idx = 1

\* C15: when a betting round opens on the Flop, the Turn or the River the
\* current actor is the first hand-player in the order 1, 2, ..., n-1, 0 who
\* is neither Folded nor AllIn, so that the dealer at index 0 acts last;
\* heads-up the player at index 1 opens every post-flop round.
C15_PostFlopFirstActor == [][C15_Step]_vars

\* A round opened in which index 1 could not act and the turn went past it.
C15_Witness ==
    /\ game_state.phase \in {"Flop", "Turn", "River"}
    /\ \E k \in DOMAIN msgs : msgs[k].type = "NextToAct"
    /\ VLen(game_state.hand_player_order) = 3
    /\ game_state.players[game_state.hand_player_order[1]].state
          \in {"Folded", "AllIn"}
    /\ 0 \in MustAct(game_state)
    /\ game_state.cur_player_idx = 2

\* The same under the session layer, for the engine's answer to any action
\* of the current actor.
PostFlopFirstActorInPlay ==
    \A action \in Actions :
        LET r == Answer(action)
        IN (InBettingRound /\ Accepted(r)
            /\ r.s.phase \in {"Flop", "Turn", "River"}
            /\ r.s.phase # game_state.phase)
           => r.s.cur_player_idx = FirstAfterButton(r.s)

\* The streets still to be dealt from a betting phase, in order.
StreetsAfter(phase) ==
    CASE phase = "PreFlop" -> <<"Flop", "Turn", "River">>
      [] phase = "Flop" -> <<"Turn", "River">>
      [] phase = "Turn" -> <<"River">>
      [] OTHER -> <<>>

\* From state s the events run the board out and show the hands down in
\* state u: one CommunityCardsDealt per street still to come, in order, no
\* NextToAct, and one Showdown event, the last of all.
RanOut(s, events, u) ==
    LET dealt == SelectSeq(events, LAMBDA e : e.type = "CommunityCardsDealt")
        showdowns == {j \in DOMAIN events : events[j].type = "Showdown"}
        streets == StreetsAfter(s.phase)
    IN /\ u.phase = "Showdown"
       /\ Len(dealt) = Len(streets)
       /\ \A j \in DOMAIN dealt :
             /\ dealt[j].phase = streets[j]
             /\ Len(dealt[j].cards) = (IF streets[j] = "Flop" THEN 3 ELSE 1)
       /\ \A i \in DOMAIN u.community_cards : u.community_cards[i] # NoCard
       /\ \A i \in DOMAIN s.community_cards :
             s.community_cards[i] # NoCard
                => u.community_cards[i] = s.community_cards[i]
       /\ \A j \in DOMAIN events : events[j].type # "NextToAct"
       /\ showdowns = {Len(events)}

NoMoreBetting(s) ==
    /\ Cardinality(MustAct(s)) < 2
    /\ Cardinality(NonFolded(s)) >= 2

C16_Step ==
    (game_state' # game_state /\ NoMoreBetting(game_state))
        => RanOut(game_state, msgs', game_state')

\* C16: when a betting round completes with fewer than two hand-players
\* able to act (neither Folded nor AllIn) and at least two not folded, the
\* same step deals every community card still to come, one
\* CommunityCardsDealt per street in the order Flop, Turn, River, sets
\* phase = Showdown, emits no NextToAct and ends with exactly one Showdown
\* event.
C16_AutoRunout == [][C16_Step]_vars

\* A preflop all-in among three players, run out to the river and shown.
C16_Witness ==
    /\ game_state.phase = "Showdown"
    /\ VLen(game_state.hand_player_order) = 3
    /\ Cardinality(MustAct(game_state)) < 2
    /\ Len(SelectSeq(msgs, LAMBDA e : e.type = "CommunityCardsDealt")) = 3
    /\ \E j \in DOMAIN msgs : msgs[j].type = "Showdown"

\* The same under the session layer, for the engine's answer to any action
\* of the current actor that completes a betting round.
AutoRunoutInPlay ==
    \A action \in Actions :
        (InBettingRound /\ Accepted(Answer(action))
         /\ RoundComplete(AfterEffects(action))
         /\ NoMoreBetting(AfterEffects(action)))
        => RanOut(game_state,
                  SubSeq(Answer(action).msgs, 2, Len(Answer(action).msgs)),
                  Answer(action).s)

\* The current actor of a betting phase is Offline.
OfflineActor ==
    /\ game_state.phase \in BettingPhases
    /\ Actor # NoPlayer
    /\ game_state.players[Actor].state = "Offline"

\* The tick acted for the current actor: the first event reports the check
\* when nothing is owed and the fold otherwise, and no chip moved with it.
ActedForActor(t) ==
    LET idx == game_state.player_indices[Actor]
        owed == game_state.max_bet - game_state.bets[idx]
    IN /\ ~t.panic
       /\ t.acted
       /\ t.msgs # <<>>
       /\ t.msgs[1].type = "PlayerActed"
       /\ t.msgs[1].player_id = Actor
       /\ t.msgs[1].action = (IF owed = 0 THEN Check ELSE Fold)
       /\ t.msgs[1].total_bet_this_round = game_state.bets[idx]
       /\ t.msgs[1].new_stack = game_state.players[Actor].stack
       /\ t.msgs[1].new_pot = game_state.pot
       /\ owed # 0 => (t.s.phase = "Showdown"
                       \/ t.s.players[Actor].state = "Folded")

Idle(t) ==
    /\ ~t.panic
    /\ ~t.acted
    /\ t.msgs = <<>>
    /\ t.s = game_state

\* C17: tick acts exactly when the phase is a betting phase and the current
\* actor is Offline: it then checks for that actor when nothing is owed and
\* folds otherwise, and returns true; in every other state it returns false
\* with no events and leaves the game state unchanged.
C17_TickActsForOffline ==
    \A ranks \in Ranks :
        IF OfflineActor THEN ActedForActor(tick(game_state, ranks))
        ELSE Idle(tick(game_state, ranks))

\* The turn of an Offline player who owes chips: the tick folds for him.
C17_Witness ==
    /\ OfflineActor
    /\ game_state.max_bet > game_state.bets[game_state.player_indices[Actor]]
    /\ tick(game_state, AnyRanks).acted
    /\ tick(game_state, AnyRanks).msgs[1].action = Fold

\* C18: no room mutation, a processed PerformAction or a disconnect, leaves
\* a betting phase with an Offline player as the current actor: the session
\* layer steps tick, with no further client message, until the current
\* actor is not Offline or the hand has ended.
C18_OfflineAutoAdvance == ~OfflineActor

\* A step of a processed PerformAction.
PerformActionStep ==
    /\ connections' = connections
    /\ hands' = hands
    /\ crashed' = crashed
    /\ msgs' # <<EvError("host_only")>>

AutoAdvanceAfterAction ==
    [][(PerformActionStep /\ game_state' # game_state) => ~OfflineActor']_vars

\* The events of room mutations on a connection's channel stand in the
\* order in which the mutations took the room lock.
InLockOrder(c) ==
    \A i, j \in DOMAIN queue[c] :
        (i < j /\ queue[c][i].ev.type # "Error"
               /\ queue[c][j].ev.type # "Error")
            => queue[c][i].seq <= queue[c][j].seq

\* C19: of two room mutations, every recipient has all events of the one
\* that took the room lock first on its outbound queue before any event of
\* the other, so that all recipients see prefixes of one event order,
\* however the connection handlers interleave.
C19_GlobalEventOrder == \A c \in ConnIds : InLockOrder(c)

\* The events of one and the same mutation reach a channel in the order the
\* engine returned them.
OwnEventsInOrder ==
    \A c \in ConnIds : \A i, j \in DOMAIN queue[c] :
        (i < j /\ queue[c][i].seq = queue[c][j].seq /\ queue[c][i].seq # 0
         /\ queue[c][i].seq = mutations
         /\ queue[c][i].ev.type # "Error" /\ queue[c][j].ev.type # "Error")
            => \E a, b \in DOMAIN msgs :
                  a <= b /\ msgs[a] = queue[c][i].ev /\ msgs[b] = queue[c][j].ev

\* A connection with a room context whose disconnect has not been handled.
Bound(c) == tasks[c].at \in {"bound", "sending"} /\ c \in connections

BoundHasRoom == \A c \in ConnIds : Bound(c) => registry

RemovedOnlyEmpty == (registry /\ ~registry') => connections = {}

\* C20: a room leaves the registry only when its connection map is empty at
\* that moment, and a connection whose JoinRoom succeeded is bound to a room
\* that stays in the registry until that connection's own disconnect is
\* handled, however JoinRoom and disconnect handlers interleave.
C20_RoomLifecycle == [](BoundHasRoom) /\ [][RemovedOnlyEmpty]_vars

\* A step that changes the room: its GameState, its host or its connection
\* map.
MutatesRoom ==
    \/ game_state' # game_state
    \/ host_id' # host_id
    \/ connections' # connections

\* A step inside a block that holds the room lock: the only steps that
\* count a mutation.
HoldsRoomLock == mutations' = mutations + 1

Enqueues == queue' # queue

C21_Step ==
    /\ MutatesRoom => HoldsRoomLock
    /\ Enqueues => (~HoldsRoomLock /\ ~MutatesRoom)

\* C21: the GameState, the host and the connection map of a room change
\* only in a step of a handler that holds the room lock, and no handler
\* puts a message on an outbound channel while it holds the lock.
C21_MutationBroadcastDiscipline == [][C21_Step]_vars

\* Two blocks have run and a handler is in the middle of its sends.
C21_Witness ==
    /\ mutations = 2
    /\ \E c \in ConnIds : queue[c] # <<>>
    /\ \E p \in ConnIds : tasks[p].at = "sending" /\ tasks[p].pending # <<>>

\* A room in the registry with at least one connection has a connected
\* player as host.
HostConnected == (registry /\ connections # {}) => host_id \in connections

\* The block of handle_disconnect for the host, with a connection left.
HostLeaves ==
    /\ host_id \in connections
    /\ connections' = connections \ {host_id}
    /\ connections' # {}

\* What the task of the leaving host has to send to connection c.
ToSend(p, c) ==
    LET mine == SelectSeq(tasks'[p].pending, LAMBDA h : h.to = c)
    IN [k \in DOMAIN mine |-> mine[k].ev]

HostTransferred ==
    /\ host_id' \in connections'
    /\ \A c \in connections' :
          ToSend(host_id, c)
              = <<EvPlayerUpdated(host_id, Player(game_state.players[host_id].stack,
                                                  "Offline")),
                  EvInfo(host_id')>>

HostTransferOnDisconnect == [][HostLeaves => HostTransferred]_vars

\* C22: when the host's connection is dropped and a connection remains,
\* host_id becomes one of the remaining connected players and every
\* remaining connection is sent PlayerUpdated for the old host, Offline,
\* and then an Info naming the new host; so a room with at least one
\* connection always has a connected player as host.
C22_HostTransfer == [](HostConnected) /\ HostTransferOnDisconnect

\* The room's answer to a StartHand message from connection p.
StartHandFrom(p) == StartHand(p) \/ StartHandNotHost(p)

Refused(p) ==
    /\ game_state' = game_state
    /\ host_id' = host_id
    /\ connections' = connections
    /\ \A c \in ConnIds :
          sent'[c] = IF c = p THEN <<EvError("host_only")>> ELSE <<>>

\* C23: a StartHand from a player who is not the host is answered with an
\* Error to the sender alone and changes nothing in the room: the seats are
\* not rotated, the phase stays and no chip moves.
C23_HostOnlyStart ==
    [][\A p \in ConnIds : (StartHandFrom(p) /\ p # host_id) => Refused(p)]_vars

\* A player who is not the host has just been refused.
C23_Witness ==
    \E p \in connections \ {host_id} :
        /\ sent[p] = <<EvError("host_only")>>
        /\ \A c \in ConnIds \ {p} : sent[c] = <<>>

\* The hand in progress stands as it was.
HandKept ==
    /\ game_state'.phase = game_state.phase
    /\ game_state'.pot = game_state.pot
    /\ game_state'.bets = game_state.bets
    /\ game_state'.community_cards = game_state.community_cards
    /\ game_state'.player_cards = game_state.player_cards
    /\ game_state'.hand_player_order = game_state.hand_player_order
    /\ game_state'.seated_players = game_state.seated_players

\* C24: the room starts a new hand, rotating the button and calling
\* start_new_hand, only while phase is WaitingForPlayers or Showdown; a
\* StartHand of the host received in PreFlop, Flop, Turn or River leaves
\* the pot, the bets, the community cards and the hole cards of the hand
\* in progress as they are.
C24_StartHandPhaseGate ==
    [][(game_state.phase \in BettingPhases /\ HandleStartHand(host_id))
          => HandKept]_vars

\* The conditions under which a seat is granted.
SeatFree(p, seat_id) ==
    /\ game_state.phase \in {"WaitingForPlayers", "Showdown"}
    /\ seat_id < seats
    /\ \A q \in DOMAIN game_state.players \ {p} :
          SeatOf(game_state, q) # seat_id

Seated(r, p, seat_id, stack) ==
    LET to == dispatch(p, connections, r.msgs, r.only)
    IN /\ Cardinality({k \in DOMAIN r.s.seated_players :
                          r.s.seated_players[k] = p}) = 1
       /\ SeatOf(r.s, p) = seat_id
       /\ r.s.players[p] = Player(stack, "Waiting")
       /\ \A c \in connections :
             to[c] = <<EvPlayerUpdated(p, Player(stack, "Waiting"))>>

SeatRefused(r, p) ==
    LET to == dispatch(p, connections, r.msgs, r.only)
    IN /\ r.s = game_state
       /\ Len(to[p]) = 1
       /\ to[p][1].type = "Error"
       /\ \A c \in ConnIds \ {p} : to[c] = <<>>

\* C25: RequestSeat{seat_id, stack} is applied only when phase is
\* WaitingForPlayers or Showdown, seat_id < seats and no other player holds
\* seat_id; the requester is then exactly once in seated_players, with that
\* seat, the requested stack and state Waiting, and PlayerUpdated is
\* broadcast.  Otherwise the sender alone gets an Error and the GameState
\* is unchanged.
C25_RequestSeatGate ==
    \A p \in connections, seat_id \in SeatIds, stack \in SeatStacks :
        IF SeatFree(p, seat_id)
        THEN Seated(request_seat(game_state, p, seat_id, stack),
                    p, seat_id, stack)
        ELSE SeatRefused(request_seat(game_state, p, seat_id, stack), p)

\* A player has just moved to another seat after a hand, at Showdown.
C25_Witness ==
    /\ game_state.phase = "Showdown"
    /\ msgs # <<>>
    /\ msgs[1].type = "PlayerUpdated"
    /\ msgs[1].player.state = "Waiting"
    /\ msgs[1].player_id \in DOMAIN game_state.player_indices

\* The seat numbers of seated_players, read from index 0.
SeatRing == [k \in DOMAIN game_state.seated_players |->
                SeatOf(game_state, game_state.seated_players[k])]

\* The places of the ring, the step from the last back to index 0 included,
\* where the seat number does not go up.
Descents ==
    {k \in DOMAIN SeatRing :
        SeatRing[(k % Len(SeatRing)) + 1] <= SeatRing[k]}

\* C26: after any sequence of accepted RequestSeat messages (new seats and
\* re-seats) and StartHand rotations, seated_players is in circular-increasing
\* seat order: reading the seat numbers from index 0 around the ring there is
\* at most one descent.
C26_SeatOrder ==
    Len(game_state.seated_players) >= 2 => Cardinality(Descents) <= 1

\* C27: in every reachable state player_indices is a bijection with
\* hand_player_order: its keys are exactly the ids of hand_player_order and
\* player_indices[hand_player_order[i]] = i for every i, also after a
\* StartHand that could not start a hand.
C27_IndexBijection ==
    LET order == game_state.hand_player_order
    IN /\ DOMAIN game_state.player_indices = {order[i] : i \in DOMAIN order}
       /\ \A i \in DOMAIN order : game_state.player_indices[order[i]] = i

\* C28: whenever the phase is PreFlop, Flop, Turn or River, cur_player_idx is
\* an index of hand_player_order and the player it designates is Playing, in
\* every state reached through start_new_hand, handle_player_action, tick
\* and disconnects.
C28_CurrentActorPlaying ==
    game_state.phase \in BettingPhases =>
        /\ game_state.cur_player_idx \in DOMAIN game_state.hand_player_order
        /\ game_state.players[game_state.hand_player_order[
               game_state.cur_player_idx]].state = "Playing"

\* The same with no connection ever closed.
CurrentActorPlayingConnected ==
    connections = PlayerIds => C28_CurrentActorPlaying

LastRaiseFloor ==
    game_state.phase \in BettingPhases =>
        game_state.last_raise_amount >= big_blind

\* A round starts: a hand is dealt or the phase moves to the next street.
RoundStarts ==
    /\ game_state'.phase \in BettingPhases
    /\ game_state'.phase # game_state.phase

LastRaiseResetStep == RoundStarts => game_state'.last_raise_amount = big_blind

\* C29: last_raise_amount >= big_blind in every state of every betting
\* round: it is big_blind when a round starts and no accepted action takes it
\* below.
C29_LastRaiseFloor == [](LastRaiseFloor) /\ [][LastRaiseResetStep]_vars

\* A raise above the minimum has been made and the round is still open.
C29_Witness ==
    /\ game_state.phase \in BettingPhases
    /\ game_state.last_raise_amount > big_blind

\* The community slots that hold a card.
Revealed(s) == {i \in DOMAIN s.community_cards : s.community_cards[i] # NoCard}

BoardInStep ==
    /\ game_state.phase = "PreFlop" => Revealed(game_state) = {}
    /\ game_state.phase = "Flop" => Revealed(game_state) = 0..2
    /\ game_state.phase = "Turn" => Revealed(game_state) = 0..3
    /\ game_state.phase = "River" => Revealed(game_state) = 0..4

PhaseRank(phase) ==
    CASE phase = "PreFlop" -> 1
      [] phase = "Flop" -> 2
      [] phase = "Turn" -> 3
      [] phase = "River" -> 4
      [] phase = "Showdown" -> 5
      [] OTHER -> 0

\* A step inside a hand: a hand has been dealt and no StartHand is handled.
WithinHand ==
    /\ hands' = hands
    /\ game_state.phase \in BettingPhases \cup {"Showdown"}

PhaseForward ==
    \/ game_state'.phase = game_state.phase
    \/ /\ game_state.phase \in BettingPhases
       /\ \/ PhaseRank(game_state'.phase) = PhaseRank(game_state.phase) + 1
          \/ game_state'.phase = "Showdown"

SlotsKept ==
    \A i \in Revealed(game_state) :
        game_state'.community_cards[i] = game_state.community_cards[i]

\* C30: within a hand the phase only moves PreFlop -> Flop -> Turn -> River
\* -> Showdown, possibly jumping to Showdown; the revealed community slots
\* are none in PreFlop, {0,1,2} in Flop, {0..3} in Turn and {0..4} in River;
\* a slot once set is not changed during the hand.
C30_PhasesAndBoard ==
    [](BoardInStep) /\ [][WithinHand => (PhaseForward /\ SlotsKept)]_vars

\* The river has been reached street by street.
C30_Witness ==
    /\ game_state.phase = "River"
    /\ Revealed(game_state) = 0..4
    /\ game_state.pot > 0

\* The sender alone gets one Error.
ErrorOnlyTo(c) ==
    /\ Len(sent'[c]) = 1
    /\ sent'[c][1].type = "Error"
    /\ \A d \in ConnIds \ {c} : sent'[d] = <<>>

RoomsUntouched == UNCHANGED <<game_state, host_id, connections, registry>>

\* The connection has been let into the room: it is among the room's
\* connections and players and has been sent RoomJoined with its own id.
Admitted(c) ==
    /\ registry'
    /\ c \in connections' \ connections
    /\ c \in DOMAIN game_state'.players
    /\ Len(sent'[c]) = 1
    /\ sent'[c][1].type = "RoomJoined"
    /\ sent'[c][1].your_id = c

C31_Step ==
    \A c \in ConnIds :
        /\ (~HasContext(c) /\ HasContext(c)')
              => /\ Admitted(c)
                 /\ ClientCreateRoom(c) \/ ClientJoinRoom(c, "room")
        /\ (Unauthenticated(c) /\ ClientOtherMessage(c))
              => (ErrorOnlyTo(c) /\ RoomsUntouched /\ Unauthenticated(c)')
        /\ (Unauthenticated(c) /\ ClientJoinRoom(c, "unknown"))
              => (ErrorOnlyTo(c) /\ RoomsUntouched /\ Unauthenticated(c)')
        /\ (HasContext(c)
            /\ (ClientCreateRoom(c)
                \/ \E room_id \in RoomIds : ClientJoinRoom(c, room_id)))
              => (ErrorOnlyTo(c) /\ RoomsUntouched /\ tasks' = tasks)

\* C31: a connection becomes Bound only through a successful CreateRoom or
\* JoinRoom; while Unauthenticated every other message yields an Error to
\* the sender and touches no room; JoinRoom with an unknown room id yields an
\* Error and leaves the connection Unauthenticated; CreateRoom or JoinRoom on
\* a Bound connection yields an Error and leaves the binding and all rooms
\* unchanged.
C31_ConnectionStateMachine == [][C31_Step]_vars

\* A connection with a context has just been refused a second JoinRoom,
\* while another connection is still without context.
C31_Witness ==
    /\ \E c \in ConnIds :
          /\ HasContext(c)
          /\ sent[c] = <<EvError("already_in_room")>>
    /\ \E c \in ConnIds : Unauthenticated(c)
    /\ Cardinality(connections) >= 2

\* Both hole cards of every index of hand_player_order are dealt.
FullyDealt(s) ==
    /\ DOMAIN s.player_cards = DOMAIN s.hand_player_order
    /\ \A i \in DOMAIN s.player_cards :
          s.player_cards[i][1] # NoCard /\ s.player_cards[i][2] # NoCard

\* C32: for every number k of eligible seated players with 2 <= k <= 10,
\* start_new_hand completes without a failed assertion or panic, every index
\* of hand_player_order holds two dealt hole cards and the deck that is left
\* holds at least the 5 cards of the board; player_cards is fully dealt
\* whenever the phase is PreFlop, Flop, Turn, River or Showdown.
C32_Dealing ==
    /\ (CanStart /\ HandPlayers(StartAnswer) >= MinDeal
                 /\ HandPlayers(StartAnswer) <= MaxDeal)
          => /\ ~StartAnswer.panic
             /\ FullyDealt(StartAnswer.s)
             /\ Len(StartAnswer.s.deck) >= BoardSlots
    /\ game_state.phase \in BettingPhases \cup {"Showdown"}
          => FullyDealt(game_state)

\* The same for the hands of two.
DealingHeadsUp ==
    /\ (CanStart /\ HandPlayers(StartAnswer) = 2)
          => /\ ~StartAnswer.panic
             /\ FullyDealt(StartAnswer.s)
             /\ Len(StartAnswer.s.deck) >= BoardSlots
    /\ game_state.phase \in BettingPhases \cup {"Showdown"}
          => FullyDealt(game_state)

\* C33: the view projection is idempotent: for every reachable GameState s
\* and player c, for_client(for_client(s, c), c) = for_client(s, c).
C33_ProjectionIdempotent ==
    \A c \in ConnIds :
        for_client(for_client(game_state, c), c) = for_client(game_state, c)

\* A hand is on: the projection for a hand-player empties the deck, hides
\* the other player's cards and keeps the client's own.
C33_Witness ==
    /\ game_state.phase \in BettingPhases
    /\ \E c \in DOMAIN game_state.player_indices :
          LET v == for_client(game_state, c)
              i == game_state.player_indices[c]
          IN /\ v # game_state
             /\ v.player_cards[i] = game_state.player_cards[i]
             /\ v.player_cards[i][1] # NoCard
             /\ \E j \in DOMAIN v.player_cards :
                   /\ v.player_cards[j] = <<NoCard, NoCard>>
                   /\ game_state.player_cards[j] # <<NoCard, NoCard>>

\* A step of an accepted BetOrRaise that raises max_bet and leaves the
\* betting round open.
RaiseStep ==
    /\ hands' = hands
    /\ game_state.phase \in BettingPhases
    /\ game_state'.phase = game_state.phase
    /\ msgs' # <<>>
    /\ msgs'[1].type = "PlayerActed"
    /\ msgs'[1].action.kind = "BetOrRaise"
    /\ msgs'[1].total_bet_this_round > game_state.max_bet

RaisedBy == msgs'[1].total_bet_this_round - game_state.max_bet

RaiseRule ==
    /\ game_state'.max_bet = msgs'[1].total_bet_this_round
    /\ game_state'.last_raise_amount =
          IF RaisedBy >= game_state.last_raise_amount
          THEN RaisedBy ELSE game_state.last_raise_amount

\* C34: after an accepted BetOrRaise that raises max_bet from m to t,
\* last_raise_amount is t - m whenever t - m is at least the previous
\* last_raise_amount (a full raise, all-in or not) and is unchanged when the
\* raise is an under-minimum all-in; max_bet = t in both cases.
C34_LastRaiseUpdate == [][RaiseStep => RaiseRule]_vars

\* The same for the raises that leave the raiser chips, and for the all-in
\* raises below the minimum.
RaiseRuleChipsBehind ==
    [][(RaiseStep /\ (msgs'[1].new_stack > 0
                      \/ RaisedBy < game_state.last_raise_amount))
          => RaiseRule]_vars

\* C35: a handler that enqueues an event on a peer's outbound channel never
\* has to wait for that peer's writer task: the enqueue completes at once,
\* however many events the peer has not yet written to its transport.
C35_NonBlockingFanOut ==
    \A p \in ConnIds :
        (tasks[p].pending # <<>> /\ Head(tasks[p].pending).to # p)
            => ~SendWaits(p)

\* The hole cards an event carries.
CardsOn(m) ==
    (CASE m.type = "PlayerHand" -> {m.hands[1], m.hands[2]}
       [] m.type = "RoomJoined" ->
             UNION {{m.game_state.player_cards[i][1],
                     m.game_state.player_cards[i][2]} :
                       i \in DOMAIN m.game_state.player_cards}
             \cup {m.game_state.deck[k] : k \in DOMAIN m.game_state.deck}
       [] m.type = "Showdown" ->
             UNION {{res.cards[1], res.cards[2]} : res \in m.results}
       [] OTHER -> {}) \ {NoCard}

\* The hole cards of the hand-players other than q.
CardsOfOthers(q) ==
    UNION {{game_state.player_cards[i][1], game_state.player_cards[i][2]} :
              i \in {j \in DOMAIN game_state.player_cards :
                        game_state.hand_player_order[j] # q}}

NoCardsOfOthers ==
    \A q \in ConnIds : \A k \in DOMAIN sent[q] :
        CardsOn(sent[q][k]) \cap CardsOfOthers(q) = {}

OwnHandOnly ==
    \A q \in ConnIds : \A k \in DOMAIN sent[q] :
        sent[q][k].type = "PlayerHand" =>
            /\ q \in DOMAIN game_state.player_indices
            /\ sent[q][k].hands =
                  game_state.player_cards[game_state.player_indices[q]]
            /\ \A c \in ConnIds \ {q} : sent[c] = <<>>

ProjectedStateOnly ==
    \A q \in ConnIds : \A k \in DOMAIN sent[q] :
        sent[q][k].type = "RoomJoined" =>
            sent[q][k].game_state = for_client(game_state, q)

\* C36: while the phase is PreFlop, Flop, Turn or River no message enqueued
\* to the connection of a player Q contains the hole cards of another player
\* P; PlayerHand goes to the requesting connection only and carries the
\* requester's own cards, and RoomJoined carries the projected state only.
C36_HoleCardPrivacy ==
    /\ game_state.phase \in BettingPhases => NoCardsOfOthers
    /\ OwnHandOnly
    /\ ProjectedStateOnly

\* A hand-player has just been sent his own hole cards.
C36_Witness ==
    /\ game_state.phase = "PreFlop"
    /\ \E q \in DOMAIN game_state.player_indices :
          /\ game_state.player_indices[q] = 1
          /\ sent[q] # <<>>
          /\ sent[q][1].type = "PlayerHand"
          /\ CardsOn(sent[q][1]) # {}

\* A player has joined in the middle of a betting round and has been sent
\* the state of the room.
JoinedDuringHand ==
    /\ game_state.phase \in BettingPhases
    /\ \E q \in Joiners :
          /\ sent[q] # <<>>
          /\ sent[q][1].type = "RoomJoined"

HasFolded(p) ==
    /\ p \in DOMAIN game_state.player_indices
    /\ game_state.players[p].state = "Folded"

\* A player who has folded is still Folded after a step that starts no hand.
FoldedStays ==
    \A p \in PlayerIds :
        (HasFolded(p) /\ hands' = hands)
            => game_state'.players[p].state = "Folded"

\* A player who had folded before the step, or folds in it, is paid nothing
\* by a Showdown event of the step.
FoldedWinNothing ==
    \A p \in PlayerIds :
        (hands' = hands /\ p \in DOMAIN game_state.player_indices
         /\ (HasFolded(p) \/ game_state'.players[p].state = "Folded"))
            => \A k \in DOMAIN msgs' :
                   msgs'[k].type = "Showdown" =>
                       \A res \in msgs'[k].results :
                           res.player_id = p => res.winnings = 0

\* C37: Folded is absorbing within a hand: once a hand-player has folded,
\* under every interleaving of actions, ticks and disconnects, his own
\* disconnect included, he stays out of the hand until the next
\* start_new_hand: never counted as a non-folded player, never blocking the
\* completion of a round, never eligible for a pot, and paid nothing at
\* Showdown.
C37_FoldedAbsorbing == [][FoldedStays /\ FoldedWinNothing]_vars

FoldedPaidNothing == [][FoldedWinNothing]_vars

\* Folded is kept by the steps in which a connection closes.
FoldedStaysInDisconnects ==
    [][(connections' # connections) => FoldedStays]_vars

\* Folded is kept by the steps in which no connection closes.
FoldedStaysInActions ==
    [][(connections' = connections) => FoldedStays]_vars

\* The actions without a size: enough to play a hand to its end.
PlainActions == {Fold, Check, Call}

\* The current actor of a betting phase, connected and not Offline, submits
\* an action the engine accepts.
ActorActs ==
    /\ game_state.phase \in BettingPhases
    /\ Actor \in Live
    /\ game_state.players[Actor].state # "Offline"
    /\ \E a \in PlainActions : Accepted(Answer(a)) /\ PerformAction(Actor, a)

\* A heads-up table: players 1 and 2 seated, each with one small blind or
\* with a full stack; player 3 watches.
InitLive ==
    /\ \E stacks \in [{1, 2} -> {small_blind, MaxStack}] :
          game_state = [DefaultGameState EXCEPT
                          !.players = [p \in PlayerIds |->
                                          IF p \in DOMAIN stacks
                                          THEN Player(stacks[p], "Waiting")
                                          ELSE Player(0, "SittingOut")],
                          !.seated_players = <<1, 2>>,
                          !.seat_ids = [p \in {1, 2} |-> p - 1]]
    /\ host_id = 1
    /\ connections = PlayerIds
    /\ crashed = {}
    /\ msgs = <<>>
    /\ sent = [c \in ConnIds |-> <<>>]
    /\ hands = 0
    /\ start_total = 0
    /\ in_hand = FALSE
    /\ idle_actions = 0
    /\ SessionIdle

NextLive ==
    \/ \E p \in ConnIds : StartHand(p)
    \/ \E p \in ConnIds, a \in PlainActions : PerformAction(p, a)
    \/ \E p \in ConnIds : Disconnect(p)

\* The session with its scheduling: a connected current actor eventually
\* acts, and every handler that has started runs to its end (the handlers
\* are taken whole).  Nothing obliges any other client to send a message.
SpecLive == InitLive /\ [][NextLive]_vars /\ WF_vars(ActorActs)

\* C38: every hand that reached PreFlop eventually reaches Showdown, if each
\* connected player who is the current actor eventually submits a legal
\* action and the handlers are scheduled fairly, whichever hand-players
\* disconnect during the hand.
C38_HandLiveness ==
    [](game_state.phase = "PreFlop" => <>(game_state.phase = "Showdown"))

\* The same for the hands during which every player stays connected.
HandEndsWhileConnected ==
    [](game_state.phase = "PreFlop"
          => <>(game_state.phase = "Showdown" \/ connections # PlayerIds))

\* A step of a client message other than StartHand, received when no hand
\* is being played.
AfterTheHand ==
    /\ game_state.phase \in {"Showdown", "WaitingForPlayers"}
    /\ hands' = hands
    /\ connections' = connections

Frozen ==
    /\ game_state'.players = game_state.players
    /\ game_state'.pot = game_state.pot
    /\ game_state'.bets = game_state.bets
    /\ \A k \in DOMAIN msgs' : msgs'[k].type \notin {"PlayerActed", "Showdown"}

\* C39: a finished hand is frozen: while the phase is Showdown or
\* WaitingForPlayers and until the next StartHand, no PerformAction of any
\* player changes a stack, the pot, the bets or a player's state, and no
\* further PlayerActed or Showdown event is emitted, so each hand produces
\* exactly one Showdown event.
C39_FinishedHandFrozen == [][AfterTheHand => Frozen]_vars

\* No second Showdown event for a hand.
OneShowdownEvent ==
    [][AfterTheHand =>
          \A k \in DOMAIN msgs' : msgs'[k].type # "Showdown"]_vars

\* The connection has joined the room through JoinRoom: its RoomJoined is
\* on its channel or still to be sent by its own task.
Joining(j) ==
    \/ \E k \in DOMAIN queue[j] : queue[j][k].ev.type = "RoomJoined"
    \/ \E k \in DOMAIN tasks[j].pending :
          /\ tasks[j].pending[k].to = j
          /\ tasks[j].pending[k].ev.type = "RoomJoined"

\* C40: under every interleaving of handlers, the first message enqueued on
\* a joining connection's outbound queue is its own RoomJoined; no event of
\* another handler's mutation of the room is enqueued to the joiner before
\* it.
C40_JoinOrdering ==
    \A j \in ConnIds :
        (Joining(j) /\ queue[j] # <<>>) => queue[j][1].ev.type = "RoomJoined"

====
